---- MODULE Spec2Model ----
(***************************************************************************)
(* odds-backend-gpt: a read-only gateway in front of a sports-odds         *)
(* provider.  The module models                                            *)
(*   - the request cache (node-cache with a standard TTL) and fetchOdds,   *)
(*     the cached upstream client, as interleaved asynchronous calls;      *)
(*   - resolveSportKey, the sport alias resolver;                          *)
(*   - the express handlers /sports, /scan, /markets and /markets/preset   *)
(*     of the two latest server builds (part_003, part_004);               *)
(*   - normalizeEvents and the scan handlers' inline event mappings;       *)
(*   - the parlay pricer and the odds conversions;                         *)
(*   - every server build as a chain of middleware and routes, a request   *)
(*     going through the API key gate to the handler that takes it, and    *)
(*     that handler to its answer.                                         *)
(* JavaScript values are tagged records, strings that the code inspects    *)
(* character by character are sequences of one-character strings.          *)
(***************************************************************************)
EXTENDS Integers, Sequences, FiniteSets, TLC

VARIABLES
    stdTTL,     \* CACHE_TTL_SECONDS as read when the cache is constructed
    KEY,        \* ODDS_API_KEY as read at module load (Undefined when not set)
    build,      \* which build of the code is running
    cache,      \* NodeCache data: key -> [has, v, age]
    calls,      \* the fetchOdds calls awaiting the upstream, per cache key:
                \* those awaiting request() and those awaiting the body
    lastSet,    \* per key, the last cache.set and the time since: [has, v, age]
    last,       \* how the fetchOdds call that completed last ended
    req,        \* the HTTP request an express handler is serving
    rsIn,       \* argument of resolveSportKey
    rsOut,      \* result of resolveSportKey
    nzRaw,      \* raw events handed to a normalizer
    nzOut,      \* what the normalizer returned
    PUBLIC_API_KEY, \* process.env.PUBLIC_API_KEY (Undefined when not set)
    odds        \* a call of the odds conversion functions: argument and results

vars == <<stdTTL, KEY, build, cache, calls, lastSet, last,
          req, rsIn, rsOut, nzRaw, nzOut, PUBLIC_API_KEY, odds>>

fetchVars == <<stdTTL, KEY, build, cache, calls, lastSet, last>>
handlerVars == <<req>>
resolveVars == <<rsIn, rsOut>>
normalizeVars == <<nzRaw, nzOut>>
gateVars == <<PUBLIC_API_KEY>>
oddsVars == <<odds>>

---------------------------------------------------------------------------
(* Bounds of the model.                                                    *)
MaxTTL == 2
MaxCalls == 2
MaxLen == 3
MaxEvents == 2

---------------------------------------------------------------------------
(* JavaScript values.                                                      *)
Undefined == [t |-> "undefined"]
Null == [t |-> "null"]
Str(s) == [t |-> "string", s |-> s]
Num(n) == [t |-> "number", n |-> n]
Bool(b) == [t |-> "boolean", b |-> b]
Arr(a) == [t |-> "array", a |-> a]
Obj(o) == [t |-> "object", o |-> o]
Fn(name) == [t |-> "function", f |-> name]
EmptyObj == Obj([k \in {} |-> Undefined])

\* ToBoolean
Truthy(v) ==
    CASE v.t = "undefined" -> FALSE
      [] v.t = "null" -> FALSE
      [] v.t = "string" -> v.s # ""
      [] v.t = "number" -> v.n # 0
      [] v.t = "boolean" -> v.b
      [] OTHER -> TRUE

\* v == null
Nullish(v) == v.t \in {"undefined", "null"}

\* a || b and a ?? b
Or(a, b) == IF Truthy(a) THEN a ELSE b
Coalesce(a, b) == IF Nullish(a) THEN b ELSE a

\* o.f on an object literal parsed from JSON
Get(o, f) == IF o.t = "object" /\ f \in DOMAIN o.o THEN o.o[f] ELSE Undefined

---------------------------------------------------------------------------
(* Strings as character sequences.                                         *)
RECURSIVE Join(_)
Join(cs) == IF cs = <<>> THEN "" ELSE Head(cs) \o Join(Tail(cs))

\* encodeURIComponent as URLSearchParams applies it (application/x-www-form-urlencoded)
UrlEncodeChar(c) ==
    CASE c = " " -> "+"
      [] c = "," -> "%2C"
      [] c = "&" -> "%26"
      [] c = "=" -> "%3D"
      [] c = "(" -> "%28"
      [] c = ")" -> "%29"
      [] c = "[" -> "%5B"
      [] c = "]" -> "%5D"
      [] c = "{" -> "%7B"
      [] c = "}" -> "%7D"
      [] OTHER -> c

RECURSIVE UrlEncode(_)
UrlEncode(cs) == IF cs = <<>> THEN "" ELSE UrlEncodeChar(Head(cs)) \o UrlEncode(Tail(cs))

\* new URLSearchParams(params).toString(): the pairs in insertion order
RECURSIVE qs(_)
qs(params) ==
    IF params = <<>> THEN ""
    ELSE UrlEncode(Head(params).name) \o "=" \o UrlEncode(Head(params).value)
         \o (IF Tail(params) = <<>> THEN "" ELSE "&" \o qs(Tail(params)))

---------------------------------------------------------------------------
(* Configuration and inputs of the cached upstream client.                 *)
BASE == "https://up"
Secret == Str("k3y")

Endpoints == {"/sports/mlb/odds"}

P(n, v) == [name |-> n, value |-> v]

\* Params objects, as insertion-ordered pairs; a name or value is a sequence
\* of pieces, each one reserved character or a run of unreserved ones.
ParamsSet ==
    { <<P(<<"regions">>, <<"us">>), P(<<"markets">>, <<"h2h", ",", "totals">>)>>,
      <<P(<<"markets">>, <<"h2h", ",", "totals">>), P(<<"regions">>, <<"us">>)>> }

Statuses == {200, 301, 404}
Bodies == {"null", "[]", "[{\"id\":\"e1\"}]", "<html>"}

\* JSON.parse on the bodies the upstream sends; SyntaxError for the others
SyntaxError == [t |-> "error", name |-> "SyntaxError", status |-> 0, body |-> ""]
JSONParse(txt) ==
    CASE txt = "null" -> Null
      [] txt = "0" -> Num(0)
      [] txt = "[]" -> Arr(<<>>)
      [] txt = "[{\"id\":\"e1\"}]" -> Arr(<<Obj([id |-> Str("e1")])>>)
      [] OTHER -> SyntaxError

\* String(v) in a template literal or a URLSearchParams value
ToPieces(v) == IF v.t = "undefined" THEN <<"undefined">> ELSE <<v.s>>

---------------------------------------------------------------------------
(* The request cache: new NodeCache({ stdTTL }).  An entry's expiry stamp  *)
(* t = (time of set) + ttl is kept as its age, the time since the set,     *)
(* counted up to ttl + 1: t < Date.now() is age > ttl.                     *)
NoEntry == [has |-> FALSE, v |-> Undefined, age |-> 0]

\* _check: the entry's ttl has run out (a ttl of 0 never does)
CacheExpired(e, ttl) == ttl # 0 /\ e.age > ttl

\* cache.get(key): the value, or undefined when absent or expired
CacheGet(c, k, ttl) ==
    IF c[k].has /\ ~CacheExpired(c[k], ttl) THEN c[k].v ELSE Undefined

\* a get that refreshed the entry it returned (node-cache does not)
CacheAfterGetRefresh(c, k, ttl) ==
    IF c[k].has /\ CacheExpired(c[k], ttl) THEN [c EXCEPT ![k] = NoEntry]
    ELSE IF c[k].has THEN [c EXCEPT ![k].age = 0] ELSE c

\* cache.get(key) deletes the entry it finds expired and changes nothing else
CacheAfterGet(c, k, ttl) ==
    IF c[k].has /\ CacheExpired(c[k], ttl) THEN [c EXCEPT ![k] = NoEntry] ELSE c

\* a set that leaves a live entry as it is
CacheSetKeep(c, k, v) ==
    IF c[k].has THEN c ELSE [c EXCEPT ![k] = [has |-> TRUE, v |-> v, age |-> 0]]

\* cache.set(key, value): overwrite, the ttl counted from now
CacheSet(c, k, v) == [c EXCEPT ![k] = [has |-> TRUE, v |-> v, age |-> 0]]

\* one second passes
Older(c, ttl) ==
    [k \in DOMAIN c |->
        IF c[k].has /\ c[k].age <= ttl THEN [c[k] EXCEPT !.age = @ + 1] ELSE c[k]]

---------------------------------------------------------------------------
(* fetchOdds(endpoint, params).  Calls that await request() differ only in *)
(* their key, calls that await body.json() or body.text() in their key and *)
(* the status that has arrived: calls[k] counts them (n, and rd per        *)
(* status) and holds the request they sent.                                *)
CacheKey(endpoint, params) == endpoint \o "?" \o qs(params)

Keys == { CacheKey(e, p) : e \in Endpoints, p \in ParamsSet }

\* the URL requested: credential in a header (first build) or as apiKey
RequestUrl(b, endpoint, params, key) ==
    IF b = "header"
    THEN BASE \o endpoint \o "?" \o qs(params)
    ELSE BASE \o endpoint \o "?" \o qs(params \o <<P(<<"apiKey">>, ToPieces(key))>>)

Authorization(b, key) ==
    IF b = "header" THEN "Bearer " \o Join(ToPieces(key)) ELSE ""

NoCalls == [n |-> 0, rd |-> [s \in Statuses |-> 0], url |-> "", auth |-> ""]

\* the calls of one key that have the status and await the body
RECURSIVE Reading(_, _)
Reading(rd, ss) ==
    IF ss = {} THEN 0
    ELSE LET s == CHOOSE x \in ss : TRUE IN rd[s] + Reading(rd, ss \ {s})

RECURSIVE SumCalls(_, _)
SumCalls(c, ks) ==
    IF ks = {} THEN 0
    ELSE LET k == CHOOSE x \in ks : TRUE
         IN  c[k].n + Reading(c[k].rd, Statuses) + SumCalls(c, ks \ {k})

InFlight == SumCalls(calls, Keys)

\* the call that finished last: how it ended, whether it went upstream and
\* wrote the cache, and whether its set replaced an entry a get would have
\* served (one written while this call was awaiting the upstream)
NoLast ==
    [pc |-> "none", key |-> "", sent |-> FALSE, status |-> 0, result |-> Undefined,
     wrote |-> FALSE, over |-> FALSE]

UpstreamError(status, body) ==
    [t |-> "error", name |-> "Error", status |-> status, body |-> body]
NetworkError == [t |-> "error", name |-> "Error", status |-> 0, body |-> ""]
\* undici's error when the connection ends before the body does
BodyError == [t |-> "error", name |-> "SocketError", status |-> 0, body |-> ""]

\* key, lookup, and on a miss the request (part_001 lines 12-28)
FetchStart(endpoint, params) ==
    LET key == CacheKey(endpoint, params)
        cached == CacheGet(cache, key, stdTTL)
    IN  /\ InFlight < MaxCalls
        /\ cache' = CacheAfterGet(cache, key, stdTTL)
        /\ IF Truthy(cached)
           THEN /\ last' = [NoLast EXCEPT !.pc = "returned", !.key = key,
                                          !.result = cached]
                /\ calls' = calls
           ELSE /\ calls' = [calls EXCEPT ![key] =
                    [n |-> @.n + 1, rd |-> @.rd,
                     url |-> RequestUrl(build, endpoint, params, KEY),
                     auth |-> Authorization(build, KEY)]]
                /\ last' = last
        /\ UNCHANGED <<stdTTL, KEY, build, lastSet>>
        /\ UNCHANGED <<handlerVars, resolveVars, normalizeVars, gateVars, oddsVars>>

\* request() resolves with a status: the call goes on to read the body,
\* body.text() of an error answer, body.json() of any other (part_001 lines
\* 22-31 and 35 up to the await)
RequestResolves(key, status) ==
    /\ calls[key].n > 0
    /\ calls' = [calls EXCEPT ![key].n = @ - 1, ![key].rd[status] = @ + 1]
    /\ UNCHANGED <<stdTTL, KEY, build, cache, lastSet, last>>
    /\ UNCHANGED <<handlerVars, resolveVars, normalizeVars, gateVars, oddsVars>>

\* one call that was reading the body is done
Settled(c, key, status) ==
    LET left == [c[key] EXCEPT !.rd[status] = @ - 1]
    IN  [c EXCEPT ![key] = IF left.n = 0 /\ Reading(left.rd, Statuses) = 0
                           THEN NoCalls ELSE left]

\* the body has arrived (part_001 lines 31-32 and 35-37 from the await on)
UpstreamReply(key, status, body) ==
    LET data == JSONParse(body)
        end == [NoLast EXCEPT !.key = key, !.sent = TRUE, !.status = status]
    IN  /\ calls[key].rd[status] > 0
        /\ calls' = Settled(calls, key, status)
        /\ IF status >= 400
           THEN /\ last' = [end EXCEPT !.pc = "threw",
                                       !.result = UpstreamError(status, body)]
                /\ UNCHANGED <<cache, lastSet>>
           ELSE IF data = SyntaxError
           THEN /\ last' = [end EXCEPT !.pc = "threw", !.result = SyntaxError]
                /\ UNCHANGED <<cache, lastSet>>
           ELSE /\ cache' = CacheSet(cache, key, data)
                /\ lastSet' = [lastSet EXCEPT ![key] = [has |-> TRUE, v |-> data, age |-> 0]]
                /\ last' = [end EXCEPT !.pc = "returned", !.result = data,
                                       !.wrote = TRUE,
                                       !.over = Truthy(CacheGet(cache, key, stdTTL))]
        /\ UNCHANGED <<stdTTL, KEY, build>>
        /\ UNCHANGED <<handlerVars, resolveVars, normalizeVars, gateVars, oddsVars>>

\* the body breaks off after the status arrived: body.json() or body.text()
\* rejects and the await of line 31 or 35 throws that error
BodyRejects(key, status) ==
    /\ calls[key].rd[status] > 0
    /\ calls' = Settled(calls, key, status)
    /\ last' = [NoLast EXCEPT !.pc = "threw", !.key = key, !.sent = TRUE,
                              !.status = status, !.result = BodyError]
    /\ UNCHANGED <<stdTTL, KEY, build, cache, lastSet>>
    /\ UNCHANGED <<handlerVars, resolveVars, normalizeVars, gateVars, oddsVars>>

\* the request rejects (connection failure): the await of line 22 throws
RequestFails(key) ==
    /\ calls[key].n > 0
    /\ calls' = [calls EXCEPT ![key] =
                    IF @.n = 1 /\ Reading(@.rd, Statuses) = 0 THEN NoCalls
                    ELSE [@ EXCEPT !.n = @ - 1]]
    /\ last' = [NoLast EXCEPT !.pc = "threw", !.key = key, !.sent = TRUE,
                              !.result = NetworkError]
    /\ UNCHANGED <<stdTTL, KEY, build, cache, lastSet>>
    /\ UNCHANGED <<handlerVars, resolveVars, normalizeVars, gateVars, oddsVars>>

\* Date.now() advances by a second
Tick ==
    /\ cache' = Older(cache, stdTTL)
    /\ lastSet' = Older(lastSet, stdTTL)
    /\ calls' = calls
    /\ last' = last
    /\ UNCHANGED <<stdTTL, KEY, build>>
    /\ UNCHANGED <<handlerVars, resolveVars, normalizeVars, gateVars, oddsVars>>

---------------------------------------------------------------------------
(* resolveSportKey.  A query string value is Undefined or a string given   *)
(* by its characters.                                                      *)
StrC(cs) == [t |-> "string", s |-> Join(cs), cs |-> cs]

Whitespace == {" ", "\t", "\n"}
UpperCase == <<"A","B","C","D","E","F","G","H","I","J","K","L","M",
               "N","O","P","Q","R","S","T","U","V","W","X","Y","Z">>
LowerCase == <<"a","b","c","d","e","f","g","h","i","j","k","l","m",
               "n","o","p","q","r","s","t","u","v","w","x","y","z">>

ToLowerChar(c) ==
    IF \E i \in DOMAIN UpperCase : UpperCase[i] = c
    THEN LowerCase[CHOOSE i \in DOMAIN UpperCase : UpperCase[i] = c]
    ELSE c

\* String.prototype.toLowerCase, trim, includes
ToLowerCase(cs) == [i \in DOMAIN cs |-> ToLowerChar(cs[i])]

RECURSIVE TrimStart(_)
TrimStart(cs) ==
    IF cs # <<>> /\ Head(cs) \in Whitespace THEN TrimStart(Tail(cs)) ELSE cs

RECURSIVE TrimEnd(_)
TrimEnd(cs) ==
    IF cs # <<>> /\ cs[Len(cs)] \in Whitespace
    THEN TrimEnd(SubSeq(cs, 1, Len(cs) - 1)) ELSE cs

Trim(cs) == TrimEnd(TrimStart(cs))
Includes(cs, c) == \E i \in DOMAIN cs : cs[i] = c

\* String(value || '')
StringOr(value) == IF Truthy(value) THEN value.cs ELSE <<>>

\* What every object literal inherits from Object.prototype.
ObjectPrototype ==
    ("constructor" :> Fn("Object")) @@ ("toString" :> Fn("toString"))
    @@ ("valueOf" :> Fn("valueOf")) @@ ("hasOwnProperty" :> Fn("hasOwnProperty"))
    @@ ("isPrototypeOf" :> Fn("isPrototypeOf"))
    @@ ("toLocaleString" :> Fn("toLocaleString"))
    @@ ("__proto__" :> EmptyObj)

\* table[name] on an object literal: own properties, then inherited ones
Lookup(table, name) ==
    IF name \in DOMAIN table THEN table[name]
    ELSE IF name \in DOMAIN ObjectPrototype THEN ObjectPrototype[name]
    ELSE Undefined

SPORT_ALIASES ==
    [mlb |-> StrC(<<"b","a","s","e","b","a","l","l","_","m","l","b">>),
     nba |-> StrC(<<"b","a","s","k","e","t","b","a","l","l","_","n","b","a">>),
     ncaab |-> StrC(<<"b","a","s","k","e","t","b","a","l","l","_","n","c","a","a","b">>),
     nfl |-> StrC(<<"a","m","e","r","i","c","a","n","f","o","o","t","b","a","l","l","_","n","f","l">>),
     ncaaf |-> StrC(<<"a","m","e","r","i","c","a","n","f","o","o","t","b","a","l","l","_","n","c","a","a","f">>),
     nhl |-> StrC(<<"i","c","e","h","o","c","k","e","y","_","n","h","l">>),
     soccer |-> StrC(<<"s","o","c","c","e","r">>),
     tennis |-> StrC(<<"t","e","n","n","i","s","_","a","t","p">>),
     atp |-> StrC(<<"t","e","n","n","i","s","_","a","t","p">>),
     wta |-> StrC(<<"t","e","n","n","i","s","_","w","t","a">>)]

resolveSportKey(value) ==
    LET v == ToLowerCase(Trim(StringOr(value)))
    IN  IF v = <<>> THEN Null
        ELSE IF Includes(v, "_") THEN StrC(v)
        ELSE Or(Lookup(SPORT_ALIASES, Join(v)), Null)

\* Inputs: every string of at most MaxLen characters over Alphabet, the
\* aliases in several spellings, full keys, and names no alias matches.
Alphabet == {" ", "_", "a", "N"}

RECURSIVE Strings(_)
Strings(n) ==
    IF n = 0 THEN {<<>>}
    ELSE LET shorter == Strings(n - 1)
         IN  shorter \cup { Append(cs, c) : cs \in shorter, c \in Alphabet }

NamedTokens ==
    { <<"m","l","b">>, <<"M","L","B">>, <<" ","m","l","b"," ">>, <<"n","b","a">>,
      <<"n","c","a","a","b">>, <<"n","f","l">>, <<"N","f","L">>,
      <<"n","c","a","a","f">>, <<"n","h","l">>, <<"s","o","c","c","e","r">>,
      <<"t","e","n","n","i","s">>, <<"a","t","p">>, <<"w","t","a">>,
      <<"b","a","s","e","b","a","l","l","_","m","l","b">>,
      <<"B","a","s","e","b","a","l","l","_","M","L","B">>,
      <<" ","n","f","l","_","x">>,
      <<"x","y","z">>, <<"c","r","i","c","k","e","t">>,
      <<"c","o","n","s","t","r","u","c","t","o","r">>,
      <<"t","o","S","t","r","i","n","g">>,
      <<"_","_","p","r","o","t","o","_","_">> }

SportInputs == {Undefined} \cup { StrC(cs) : cs \in Strings(MaxLen) \cup NamedTokens }

Resolve ==
    /\ rsOut = [t |-> "pending"]
    /\ rsOut' = resolveSportKey(rsIn)
    /\ rsIn' = rsIn
    /\ UNCHANGED <<fetchVars, handlerVars, normalizeVars, gateVars, oddsVars>>

---------------------------------------------------------------------------
(* normalizeEvents and the scan handlers' inline mappings.                 *)

\* array.map(f) on the elements of a JSON array
MapOutcome(o) ==
    Obj([name |-> Get(o, "name"), price |-> Get(o, "price"),
         point |-> Coalesce(Get(o, "point"), Null)])

MapOutcomes(v) == LET a == Or(v, Arr(<<>>)).a IN Arr([i \in DOMAIN a |-> MapOutcome(a[i])])

MapMarket(m) ==
    Obj([key |-> Get(m, "key"), outcomes |-> MapOutcomes(Get(m, "outcomes"))])

MapMarkets(v) == LET a == Or(v, Arr(<<>>)).a IN Arr([i \in DOMAIN a |-> MapMarket(a[i])])

MapBookmaker(b) ==
    Obj([key |-> Get(b, "key"), title |-> Get(b, "title"),
         markets |-> MapMarkets(Get(b, "markets"))])

\* (e.bookmakers || []).map(b => ...)
MapBookmakers(v) == LET a == Or(v, Arr(<<>>)).a IN Arr([i \in DOMAIN a |-> MapBookmaker(a[i])])

Event(id, sportKey, e, bookmakers) ==
    Obj([id |-> id, sport_key |-> sportKey,
         commence_time |-> Get(e, "commence_time"),
         home |-> Get(e, "home_team"), away |-> Get(e, "away_team"),
         bookmakers |-> bookmakers])

\* services/normalize.js (part_002 lines 28-48)
normalizeEvent(e) ==
    Event(Or(Or(Get(e, "id"), Get(e, "game_id")), Get(e, "event_id")),
          Or(Get(e, "sport_key"), Get(e, "sportKey")),
          e, MapBookmakers(Get(e, "bookmakers")))

normalizeEvents(rawEvents) == [i \in DOMAIN rawEvents |-> normalizeEvent(rawEvents[i])]

\* the scan handler of index.js lines 104-122
scanEventA(e) ==
    Event(Coalesce(Coalesce(Get(e, "id"), Get(e, "game_id")), Get(e, "event_id")),
          Coalesce(Get(e, "sport_key"), Get(e, "sportKey")),
          e, MapBookmakers(Get(e, "bookmakers")))

\* the scan handler of part_003 lines 118-136
scanEventB(e, sportKey) ==
    Event(Coalesce(Coalesce(Get(e, "id"), Get(e, "game_id")), Get(e, "event_id")),
          Coalesce(Get(e, "sport_key"), sportKey),
          e, MapBookmakers(Get(e, "bookmakers")))

\* the scan handlers of part_003 lines 335-342 and part_004 lines 146-153
scanEventC(e, sportKey) ==
    Event(Get(e, "id"), Coalesce(Get(e, "sport_key"), sportKey),
          e, Or(Get(e, "bookmakers"), Arr(<<>>)))

\* Raw events: each field present or not, as the upstream flavours have them.
Absent == [t |-> "absent"]
MkObj(f) == Obj([k \in { x \in DOMAIN f : f[x] # Absent } |-> f[k]])

RawOutcomes ==
    Arr(<< Obj([name |-> Str("Over"), price |-> Num(-110), point |-> Num(8)]),
           Obj([name |-> Str("Under"), price |-> Num(-105)]),
           Obj([name |-> Str("Push"), price |-> Num(100), point |-> Null]) >>)

RawBookmakers ==
    Arr(<< Obj([key |-> Str("fanduel")]),
           Obj([key |-> Str("draftkings"), title |-> Str("DraftKings"),
                markets |-> Arr(<< Obj([key |-> Str("totals"), outcomes |-> RawOutcomes]),
                                   Obj([key |-> Str("h2h")]),
                                   Obj([key |-> Str("spreads"), outcomes |-> Null]) >>)]) >>)

IdProfiles ==
    { [id |-> Str("e1"), game_id |-> Absent], [id |-> Absent, game_id |-> Str("g1")],
      [id |-> Num(0), game_id |-> Str("g1")], [id |-> Absent, game_id |-> Absent] }

SportProfiles ==
    { [sport_key |-> Str("baseball_mlb"), sportKey |-> Absent, time |-> Str("2024-07-01T00:00:00Z"),
       home |-> Str("Mets"), away |-> Str("Cubs")],
      [sport_key |-> Absent, sportKey |-> Str("icehockey_nhl"), time |-> Absent,
       home |-> Str("Bruins"), away |-> Absent],
      [sport_key |-> Absent, sportKey |-> Absent, time |-> Absent,
       home |-> Absent, away |-> Absent] }

RawEvents ==
    { MkObj([id |-> i.id, game_id |-> i.game_id, sport_key |-> p.sport_key,
             sportKey |-> p.sportKey, commence_time |-> p.time,
             home_team |-> p.home, away_team |-> p.away, bookmakers |-> b]) :
        i \in IdProfiles, p \in SportProfiles, b \in {Absent, Null, RawBookmakers} }

RECURSIVE RawLists(_)
RawLists(n) ==
    IF n = 0 THEN {<<>>}
    ELSE LET shorter == RawLists(n - 1)
         IN  shorter \cup { Append(l, e) : l \in shorter, e \in RawEvents }

Pending == [fn |-> "pending", out |-> <<>>]

ApplyNormalizeEvents ==
    /\ nzOut = Pending
    /\ nzOut' = [fn |-> "normalizeEvents", out |-> normalizeEvents(nzRaw)]
    /\ nzRaw' = nzRaw
    /\ UNCHANGED <<fetchVars, handlerVars, resolveVars, gateVars, oddsVars>>

ApplyScanA ==
    /\ nzOut = Pending
    /\ nzOut' = [fn |-> "scanA", out |-> [i \in DOMAIN nzRaw |-> scanEventA(nzRaw[i])]]
    /\ nzRaw' = nzRaw
    /\ UNCHANGED <<fetchVars, handlerVars, resolveVars, gateVars, oddsVars>>

ApplyScanB ==
    /\ nzOut = Pending
    /\ nzOut' = [fn |-> "scanB",
                 out |-> [i \in DOMAIN nzRaw |-> scanEventB(nzRaw[i], Str("basketball_nba"))]]
    /\ nzRaw' = nzRaw
    /\ UNCHANGED <<fetchVars, handlerVars, resolveVars, gateVars, oddsVars>>

ApplyScanC ==
    /\ nzOut = Pending
    /\ nzOut' = [fn |-> "scanC",
                 out |-> [i \in DOMAIN nzRaw |-> scanEventC(nzRaw[i], Str("basketball_nba"))]]
    /\ nzRaw' = nzRaw
    /\ UNCHANGED <<fetchVars, handlerVars, resolveVars, gateVars, oddsVars>>

---------------------------------------------------------------------------
(* The gateway's handlers: GET /api/gpt/sports, /scan, /markets and        *)
(* /markets/preset of the two latest server builds, part_003 (credential   *)
(* as apiKey, JSON.parse) and part_004 (credential in a header, safeParse).*)
HandlerBuilds == {"part_003", "part_004"}

\* how each build passes the credential
HandlerAuth(b) == IF b = "part_004" THEN "header" ELSE "query"

\* String.prototype.startsWith and split
StartsWith(cs, prefix) ==
    Len(cs) >= Len(prefix) /\ SubSeq(cs, 1, Len(prefix)) = prefix

RECURSIVE SplitAt(_, _, _)
SplitAt(cs, sep, cur) ==
    IF cs = <<>> THEN <<Str(cur)>>
    ELSE IF Head(cs) = sep THEN <<Str(cur)>> \o SplitAt(Tail(cs), sep, "")
    ELSE SplitAt(Tail(cs), sep, cur \o Head(cs))

Split(cs, sep) == Arr(SplitAt(cs, sep, ""))

\* Number(v) on the strings a query or a header carries: optional sign and
\* decimal digits, surrounding whitespace ignored, the empty string 0
NaN == [t |-> "NaN"]
Digits == <<"0", "1", "2", "3", "4", "5", "6", "7", "8", "9">>
IsDigits(cs) == cs # <<>> /\ \A i \in DOMAIN cs : \E d \in DOMAIN Digits : Digits[d] = cs[i]
DigitValue(c) == (CHOOSE d \in DOMAIN Digits : Digits[d] = c) - 1

RECURSIVE DigitsValue(_)
DigitsValue(cs) ==
    IF cs = <<>> THEN 0
    ELSE 10 * DigitsValue(SubSeq(cs, 1, Len(cs) - 1)) + DigitValue(cs[Len(cs)])

NumberOf(v) ==
    IF v.t = "number" THEN v
    ELSE LET s == Trim(v.cs)
         IN  IF s = <<>> THEN Num(0)
             ELSE IF IsDigits(s) THEN Num(DigitsValue(s))
             ELSE IF Head(s) = "-" /\ IsDigits(Tail(s)) THEN Num(0 - DigitsValue(Tail(s)))
             ELSE IF Head(s) = "+" /\ IsDigits(Tail(s)) THEN Num(DigitsValue(Tail(s)))
             ELSE NaN

\* Array.prototype.slice(0, limit)
Slice(a, limit) ==
    IF limit.t = "NaN" THEN <<>>
    ELSE IF limit.n < 0
         THEN SubSeq(a, 1, IF Len(a) + limit.n > 0 THEN Len(a) + limit.n ELSE 0)
         ELSE SubSeq(a, 1, IF limit.n < Len(a) THEN limit.n ELSE Len(a))

\* v?.length
Length(v) ==
    CASE v.t = "array" -> Num(Len(v.a))
      [] v.t = "string" -> Num(Len(v.s))
      [] OTHER -> Undefined

\* String(v) of what a table lookup can return, in pieces
TextPieces(v) ==
    CASE v.t = "string" -> v.cs
      [] v.t = "function" ->
            <<"function", " ", v.f, "(", ")", " ", "{", " ", "[", "native", " ",
              "code", "]", " ", "}">>
      [] OTHER -> <<"[", "object", " ", "Object", "]">>

ToText(v) == Join(TextPieces(v))

PRESETS ==
    [moneyline |-> StrC(<<"h2h">>),
     spreads |-> StrC(<<"spreads">>),
     totals |-> StrC(<<"totals">>),
     first_half |-> StrC(<<"h2h_h1", ",", "spreads_h1", ",", "totals_h1">>),
     f5 |-> StrC(<<"h2h_1st_5_innings", ",", "spreads_1st_5_innings", ",",
                   "totals_1st_5_innings">>),
     props_basic |-> StrC(<<"pitcher_strikeouts", ",", "batter_home_run", ",",
                            "batter_hits_over_under", ",",
                            "batter_total_bases_over_under">>)]

\* JSON.parse on what the upstream sends to a handler
ParseBody(txt) ==
    IF txt = "[{\"id\":\"e1\"},{\"id\":\"e2\"}]"
    THEN Arr(<<Obj([id |-> Str("e1")]), Obj([id |-> Str("e2")])>>)
    ELSE JSONParse(txt)

\* err.message of the SyntaxError JSON.parse throws on a text that starts
\* with '<': the wording of V8 up to node 18, and the one since node 20
\* (package.json names no engine)
SyntaxErrorMessage(txt) ==
    { "Unexpected token < in JSON at position 0",
      "Unexpected token '<', \"" \o txt \o "\" is not valid JSON" }

safeParse(txt) == IF ParseBody(txt) = SyntaxError THEN Str(txt) ELSE ParseBody(txt)

num(v) == IF Nullish(v) THEN Null ELSE NumberOf(v)

\* h: the x-requests-used / -remaining / -last headers, null when not sent
extractUsage(h) ==
    Obj([provider |-> Str("the-odds-api"), used |-> num(h.used),
         remaining |-> num(h.remaining), last |-> num(h.last)])

sendErr(reason, meta) == Obj([ok |-> Bool(FALSE), reason |-> Str(reason)] @@ meta)
NoMeta == [k \in {} |-> Undefined]

MissingKeyReason == "Set ODDS_API_KEY in Render env"
ScanReason(b) ==
    CASE b = "part_004" -> "Invalid or missing ?sport"
      [] b = "part_003_early" ->
            "Invalid or missing ?sport. Try one of: mlb, nfl, nba, nhl, ncaaf, ncaab, "
                \o "soccer, tennis (aliases are accepted)."
      [] OTHER -> "Invalid or missing ?sport. Try aliases like mlb, nfl, nba, nhl."
\* part_003 line 155 holds three characters beyond ASCII, written here as
\* JSON escapes
MarketsReason(b) ==
    IF b = "part_003_early"
    THEN "Missing sport or eventId. sport may be alias (e.g., mlb \\u00e2\\u2020\\u2019 baseball_mlb)."
    ELSE "Missing sport or eventId"
F5Reason(b) ==
    IF b = "part_004" THEN "Preset \"f5\" is only valid for baseball sports"
    ELSE "Preset \"f5\" is only valid for baseball sports (e.g., baseball_mlb)"
UnknownPreset(preset) == "Unknown preset \"" \o Join(preset) \o "\""

\* the parameters of an odds request, the credential last when it is one
OddsParams(b, markets, key) ==
    <<P(<<"regions">>, <<"us">>), P(<<"markets">>, TextPieces(markets)),
      P(<<"oddsFormat">>, <<"american">>), P(<<"dateFormat">>, <<"iso">>)>>
    \o (IF HandlerAuth(b) = "query" THEN <<P(<<"apiKey">>, ToPieces(key))>> ELSE <<>>)

SportsUrl(b, key) ==
    IF HandlerAuth(b) = "query"
    THEN BASE \o "/sports?" \o qs(<<P(<<"apiKey">>, ToPieces(key))>>)
    ELSE BASE \o "/sports"

ScanUrl(b, sportKey, markets, key) ==
    BASE \o "/sports/" \o ToText(sportKey) \o "/odds?" \o qs(OddsParams(b, markets, key))

EventUrl(b, sportKey, eventId, markets, key) ==
    BASE \o "/sports/" \o ToText(sportKey) \o "/events/" \o Join(eventId) \o "/odds?"
         \o qs(OddsParams(b, markets, key))

\* What a request can carry in its query string.
SportValues ==
    { Undefined, StrC(<<"m","l","b">>), StrC(<<"N","F","L">>),
      StrC(<<"b","a","s","e","b","a","l","l","_","k","b","o">>),
      StrC(<<"x","y","z">>), StrC(<<"c","o","n","s","t","r","u","c","t","o","r">>) }
EventIdValues == { Undefined, StrC(<<"e","1">>), StrC(<<" ">>) }
PresetValues ==
    { Undefined, StrC(<<"m","o","n","e","y","l","i","n","e">>),
      StrC(<<"s","p","r","e","a","d","s">>), StrC(<<"t","o","t","a","l","s">>),
      StrC(<<"f","i","r","s","t","_","h","a","l","f">>), StrC(<<"f","5">>),
      StrC(<<" ","F","5">>), StrC(<<"p","r","o","p","s","_","b","a","s","i","c">>),
      StrC(<<"b","o","g","u","s">>),
      StrC(<<"c","o","n","s","t","r","u","c","t","o","r">>),
      StrC(<<"_","_","p","r","o","t","o","_","_">>) }
MarketsValues == { Undefined, StrC(<<"h2h", ",", "totals">>) }
LimitValues == { Undefined, StrC(<<"1">>), StrC(<<"-","1">>), StrC(<<"x">>) }

Query(sport, eventId, preset, markets, limit) ==
    [sport |-> sport, eventId |-> eventId, preset |-> preset, markets |-> markets,
     limit |-> limit]

\* What the upstream can answer.
HandlerStatuses == {200, 404}
HandlerBodies == Bodies \cup {"[{\"id\":\"e1\"},{\"id\":\"e2\"}]"}
HeaderSets ==
    { [used |-> Null, remaining |-> Null, last |-> Null],
      [used |-> StrC(<<"5">>), remaining |-> StrC(<<"4","9","5">>), last |-> StrC(<<"1">>)] }

NoUpstream == [status |-> 0, body |-> ""]
NoCtx == [sportKey |-> Null, eventId |-> <<>>, preset |-> <<>>, markets |-> Undefined,
          limit |-> Num(0)]

\* the handler has called fetch and awaits the answer
Awaiting(route, q, url, ctx) ==
    [pc |-> "awaiting", route |-> route, q |-> q, sent |-> TRUE, url |-> url,
     auth |-> Authorization(HandlerAuth(build), KEY), ctx |-> ctx]

\* fetch has resolved with a status and headers; the handler awaits r.text()
ReadingText(r, status, h) ==
    [pc |-> "reading", route |-> r.route, q |-> r.q, sent |-> TRUE, url |-> r.url,
     auth |-> r.auth, ctx |-> r.ctx, status |-> status, h |-> h]

\* the same answer given only after the upstream request went out
AnsweredLate(route, q, body) ==
    [pc |-> "done", route |-> route, q |-> q, sent |-> TRUE, url |-> "",
     upstream |-> NoUpstream, ctx |-> NoCtx, res |-> [http |-> 200, body |-> body]]

\* the handler has answered with res.json(body), without calling the upstream
Answered(route, q, body) ==
    [pc |-> "done", route |-> route, q |-> q, sent |-> FALSE, url |-> "",
     upstream |-> NoUpstream, ctx |-> NoCtx, res |-> [http |-> 200, body |-> body]]

\* the handler has answered after the upstream did
Completed(r, up, body) ==
    [pc |-> "done", route |-> r.route, q |-> r.q, sent |-> TRUE, url |-> r.url,
     upstream |-> up, ctx |-> r.ctx, res |-> [http |-> 200, body |-> body]]

\* res.status(http) ahead of res.json
Status(r, http) == [r EXCEPT !.res.http = http]

\* The handlers of part_003 (both copies) and part_004, from the request to
\* the answer or to the first await: what req is when the synchronous run
\* ends.
SportsHandler(q) ==
    IF ~Truthy(KEY)
    THEN Answered("sports", q, sendErr(MissingKeyReason, NoMeta))
    ELSE Awaiting("sports", q, SportsUrl(build, KEY), NoCtx)

\* the first copy of part_003 asks for the featured markets whatever the query
ScanHandler(q) ==
    LET sportKey == resolveSportKey(q.sport)
        limit == NumberOf(Coalesce(q.limit, Num(10)))
        markets == IF Truthy(q.markets) /\ build # "part_003_early" THEN q.markets
                   ELSE StrC(<<"h2h", ",", "spreads", ",", "totals">>)
    IN  IF ~Truthy(KEY)
        THEN Answered("scan", q, sendErr(MissingKeyReason, NoMeta))
        ELSE IF ~Truthy(sportKey)
        THEN Answered("scan", q, sendErr(ScanReason(build), NoMeta))
        ELSE Awaiting("scan", q, ScanUrl(build, sportKey, markets, KEY),
                      [NoCtx EXCEPT !.sportKey = sportKey, !.markets = markets,
                                    !.limit = limit])

MarketsHandler(q) ==
    LET sportKey == resolveSportKey(q.sport)
        eventId == Trim(StringOr(q.eventId))
        markets == IF Truthy(q.markets) THEN q.markets ELSE StrC(<<"h2h">>)
    IN  IF ~Truthy(KEY)
        THEN Answered("markets", q, sendErr(MissingKeyReason, NoMeta))
        ELSE IF ~Truthy(sportKey) \/ eventId = <<>>
        THEN Answered("markets", q, sendErr(MarketsReason(build), NoMeta))
        ELSE Awaiting("markets", q,
                      EventUrl(build, sportKey, eventId, markets, KEY),
                      [NoCtx EXCEPT !.sportKey = sportKey, !.eventId = eventId,
                                    !.markets = markets])

PresetHandler(q) ==
    LET sportKey == resolveSportKey(q.sport)
        eventId == Trim(StringOr(q.eventId))
        preset == ToLowerCase(Trim(StringOr(q.preset)))
        markets == Lookup(PRESETS, Join(preset))
        reject(reason) == Answered("preset", q, sendErr(reason, NoMeta))
    IN  IF ~Truthy(KEY) THEN reject(MissingKeyReason)
        ELSE IF ~Truthy(sportKey) \/ eventId = <<>> \/ preset = <<>>
        THEN reject("Missing sport, eventId, or preset")
        ELSE IF ~Truthy(markets) THEN reject(UnknownPreset(preset))
        ELSE IF Join(preset) = "f5" /\ sportKey.t # "string"
        THEN reject("sportKey.startsWith is not a function")
        ELSE IF Join(preset) = "f5"
                /\ ~StartsWith(sportKey.cs, <<"b","a","s","e","b","a","l","l","_">>)
        THEN reject(F5Reason(build))
        ELSE Awaiting("preset", q,
                      EventUrl(build, sportKey, eventId, markets, KEY),
                      [NoCtx EXCEPT !.sportKey = sportKey, !.eventId = eventId,
                                    !.preset = preset, !.markets = markets])

\* a request arrives at one of the four routes
SportsStart ==
    /\ req.pc = "idle"
    /\ req' = SportsHandler(Query(Undefined, Undefined, Undefined, Undefined, Undefined))
    /\ UNCHANGED <<stdTTL, KEY, build, cache, calls, lastSet, last>>
    /\ UNCHANGED <<resolveVars, normalizeVars, gateVars, oddsVars>>

ScanStart(q) ==
    /\ req.pc = "idle"
    /\ req' = ScanHandler(q)
    /\ UNCHANGED <<stdTTL, KEY, build, cache, calls, lastSet, last>>
    /\ UNCHANGED <<resolveVars, normalizeVars, gateVars, oddsVars>>

MarketsStart(q) ==
    /\ req.pc = "idle"
    /\ req' = MarketsHandler(q)
    /\ UNCHANGED <<stdTTL, KEY, build, cache, calls, lastSet, last>>
    /\ UNCHANGED <<resolveVars, normalizeVars, gateVars, oddsVars>>

PresetStart(q) ==
    /\ req.pc = "idle"
    /\ req' = PresetHandler(q)
    /\ UNCHANGED <<stdTTL, KEY, build, cache, calls, lastSet, last>>
    /\ UNCHANGED <<resolveVars, normalizeVars, gateVars, oddsVars>>

\* the body of the answer to a 2xx upstream response carrying data
Success(b, route, ctx, data, usage) ==
    LET meta == IF b = "part_004" THEN [usage |-> usage] ELSE NoMeta
        sport == IF ctx.sportKey.t = "string" THEN Str(ctx.sportKey.s) ELSE ctx.sportKey
        mapped(e) == IF b = "part_003_early" THEN scanEventB(e, sport) ELSE scanEventC(e, sport)
    IN  CASE route = "sports" ->
               Obj([ok |-> Bool(TRUE), count |-> Or(Length(data), Num(0)),
                    sports |-> data] @@ meta)
          [] route = "scan" ->
               LET raw == Or(data, Arr(<<>>))
               IN  IF raw.t # "array"
                   THEN sendErr("raw.slice(...).map is not a function", NoMeta)
                   ELSE LET part == Slice(raw.a, ctx.limit)
                            events == [i \in DOMAIN part |-> mapped(part[i])]
                        IN  Obj([ok |-> Bool(TRUE), pulled |-> Num(Len(events)),
                                 events |-> Arr(events)] @@ meta)
          [] route = "markets" /\ b = "part_003_early" ->
               Obj([ok |-> Bool(TRUE), eventId |-> Str(Join(ctx.eventId)), data |-> data])
          [] route = "markets" ->
               Obj([ok |-> Bool(TRUE), sport |-> sport, eventId |-> Str(Join(ctx.eventId)),
                    markets |-> Split(ctx.markets.cs, ","), data |-> data] @@ meta)
          [] OTHER ->
               IF ctx.markets.t # "string"
               THEN sendErr("markets.split is not a function", NoMeta)
               ELSE Obj([ok |-> Bool(TRUE), sport |-> sport,
                         eventId |-> Str(Join(ctx.eventId)), preset |-> Str(Join(ctx.preset)),
                         markets |-> Split(ctx.markets.cs, ","), data |-> data] @@ meta)

---------------------------------------------------------------------------
(* The handlers of the other server builds.                                *)

\* src/index.js lines 82-95 and 131-146: the sport goes into the URL as it
\* was sent, the missing parameter is refused before the missing credential
ServerScan(q) ==
    LET sport == Trim(StringOr(q.sport))
        limit == NumberOf(Coalesce(q.limit, Num(10)))
        markets == StrC(<<"h2h", ",", "spreads", ",", "totals">>)
    IN  IF sport = <<>>
        THEN Status(Answered("scan", q, sendErr("Missing ?sport", NoMeta)), 400)
        ELSE IF ~Truthy(KEY)
        THEN Status(Answered("scan", q, sendErr(MissingKeyReason, NoMeta)), 500)
        ELSE Awaiting("scan", q, ScanUrl(build, StrC(sport), markets, KEY),
                      [NoCtx EXCEPT !.sportKey = StrC(sport), !.markets = markets,
                                    !.limit = limit])

ServerMarkets(q) ==
    LET sport == Trim(StringOr(q.sport))
        eventId == Trim(StringOr(q.eventId))
        markets == IF Truthy(q.markets) THEN q.markets ELSE StrC(<<"h2h">>)
    IN  IF sport = <<>> \/ eventId = <<>>
        THEN Status(Answered("markets", q, sendErr("Missing sport or eventId", NoMeta)), 400)
        ELSE IF ~Truthy(KEY)
        THEN Status(Answered("markets", q, sendErr(MissingKeyReason, NoMeta)), 500)
        ELSE Awaiting("markets", q, EventUrl(build, StrC(sport), eventId, markets, KEY),
                      [NoCtx EXCEPT !.sportKey = StrC(sport), !.eventId = eventId,
                                    !.markets = markets])

\* src/index.js lines 98-127 and 149-157 once the body has arrived: the
\* upstream's status is passed on with its text; a 2xx body goes through
\* r.json(), whose SyntaxError the catch answers with 500
ServerResponds(r, body) ==
    LET up == [status |-> r.status, body |-> body]
        raw == Or(ParseBody(body), Arr(<<>>))
    IN  IF r.status \notin 200..299
        THEN { Status(Completed(r, up,
                        sendErr("Odds API " \o ToString(r.status) \o ": " \o body, NoMeta)),
                      r.status) }
        ELSE IF ParseBody(body) = SyntaxError
        THEN { Status(Completed(r, up, sendErr(m, NoMeta)), 500) :
                  m \in SyntaxErrorMessage(body) }
        ELSE IF r.route = "markets"
        THEN { Completed(r, up, Obj([ok |-> Bool(TRUE), eventId |-> Str(Join(r.ctx.eventId)),
                                     data |-> ParseBody(body)])) }
        ELSE IF raw.t # "array"
        THEN { Status(Completed(r, up, sendErr("(raw || []).slice is not a function", NoMeta)),
                      500) }
        ELSE LET part == Slice(raw.a, r.ctx.limit)
                 events == [i \in DOMAIN part |-> scanEventA(part[i])]
             IN  { Completed(r, up, Obj([ok |-> Bool(TRUE), pulled |-> Num(Len(events)),
                                         events |-> Arr(events)])) }

\* zod, which routes/gpt.js imports: err.message of a failed parse is the
\* list of the issues as JSON, indented by two, in the order of the schema's
\* members; z.string().min(n) has one issue for a parameter that is missing
\* and one for a string that is short
ZodString(name, v, min) ==
    IF v.t = "undefined"
    THEN << "  {\n    \"code\": \"invalid_type\",\n    \"expected\": \"string\",\n"
            \o "    \"received\": \"undefined\",\n    \"path\": [\n      \"" \o name
            \o "\"\n    ],\n    \"message\": \"Required\"\n  }" >>
    ELSE IF Len(v.cs) < min
    THEN << "  {\n    \"code\": \"too_small\",\n    \"minimum\": " \o ToString(min)
            \o ",\n    \"type\": \"string\",\n    \"inclusive\": true,\n    \"exact\": false,\n"
            \o "    \"message\": \"String must contain at least " \o ToString(min)
            \o " character(s)\",\n    \"path\": [\n      \"" \o name \o "\"\n    ]\n  }" >>
    ELSE <<>>

\* z.coerce.number() reads Number(v) and has one issue when that is NaN; a
\* parameter that is missing takes the default
ZodNumber(name, v) ==
    IF v.t # "undefined" /\ NumberOf(v) = NaN
    THEN << "  {\n    \"code\": \"invalid_type\",\n    \"expected\": \"number\",\n"
            \o "    \"received\": \"nan\",\n    \"path\": [\n      \"" \o name
            \o "\"\n    ],\n    \"message\": \"Expected number, received nan\"\n  }" >>
    ELSE <<>>

RECURSIVE JoinLines(_)
JoinLines(issues) ==
    IF Len(issues) = 1 THEN issues[1] ELSE issues[1] \o ",\n" \o JoinLines(Tail(issues))

ZodMessage(issues) == "[\n" \o JoinLines(issues) \o "\n]"

\* the fetchOdds call of routes/gpt.js lines 25-33 and 59-67: endpoint, params
RouterCall(q) ==
    LET markets == Coalesce(q.markets, StrC(<<"h2h", ",", "spreads", ",", "totals">>))
    IN  [endpoint |-> IF q.path = "/api/gpt/scan" THEN "/sports/" \o q.sport.s \o "/odds"
                      ELSE "/sports/" \o q.sport.s \o "/events/" \o q.eventId.s \o "/odds",
         params |-> <<P(<<"regions">>, <<"us">>), P(<<"markets">>, markets.cs),
                      P(<<"oddsFormat">>, <<"american">>), P(<<"dateFormat">>, <<"iso">>)>>]

\* routes/gpt.js lines 22-33 and 56-67: the query through zod, then fetchOdds
\* of services/oddsApi.js, part_001 (api = "header") or part_002 ("query");
\* the cache of a server that has answered no request holds nothing, so the
\* call goes upstream
RouterHandler(api, q) ==
    LET issues == ZodString("sport", q.sport, 2)
                    \o (IF q.path = "/api/gpt/markets"
                        THEN ZodString("eventId", q.eventId, 3)
                        ELSE ZodNumber("limit", q.limit))
        call == RouterCall(q)
        limit == IF q.limit.t = "undefined" THEN Num(10) ELSE NumberOf(q.limit)
    IN  IF issues # <<>>
        THEN Status(Answered("gpt", q, sendErr(ZodMessage(issues), NoMeta)), 400)
        ELSE [Awaiting("gpt", q, RequestUrl(api, call.endpoint, call.params, KEY),
                       [NoCtx EXCEPT !.limit = limit])
                EXCEPT !.auth = Authorization(api, KEY)]

\* err.message when undici's request() rejects and when the body breaks off
RequestErrors == {"connect ECONNREFUSED"}
BodyErrors == {"other side closed"}

\* err.message of the TypeError of null.map: the wording of V8 since node
\* 16.9, and the one before it
NullMapMessage ==
    { "Cannot read properties of null (reading 'map')",
      "Cannot read property 'map' of null" }

\* routes/gpt.js lines 34-39 and 68-72 once fetchOdds has the body (part_001
\* lines 30-37): whatever fetchOdds or the handler throws is answered 400;
\* normalizeEvents (part_002 line 29) calls rawEvents.map, which null does
\* not have and which of a number is undefined
RouterResponds(r, body) ==
    LET up == [status |-> r.status, body |-> body]
        raw == ParseBody(body)
        refuse(m) == Status(Completed(r, up, sendErr(m, NoMeta)), 400)
    IN  IF r.status >= 400
        THEN { refuse("Odds API error " \o ToString(r.status) \o ": " \o body) }
        ELSE IF raw = SyntaxError THEN { refuse(m) : m \in SyntaxErrorMessage(body) }
        ELSE IF r.q.path = "/api/gpt/markets"
        THEN { Completed(r, up, Obj([ok |-> Bool(TRUE), eventId |-> Str(r.q.eventId.s),
                                     data |-> raw])) }
        ELSE IF raw.t = "null"
        THEN { refuse(m) : m \in NullMapMessage }
        ELSE IF raw.t # "array"
        THEN { refuse("rawEvents.map is not a function") }
        ELSE LET events == Slice(normalizeEvents(raw.a), r.ctx.limit)
             IN  { Completed(r, up, Obj([ok |-> Bool(TRUE), pulled |-> Num(Len(events)),
                                         events |-> Arr(events)])) }

\* cache.set(key, data) of fetchOdds (part_001 line 36) on behalf of the router
RouterCache(c, r, body) ==
    LET call == RouterCall(r.q)
    IN  IF r.route = "gpt" /\ r.status < 400 /\ ParseBody(body) # SyntaxError
        THEN (CacheKey(call.endpoint, call.params)
                :> [has |-> TRUE, v |-> ParseBody(body), age |-> 0]) @@ c
        ELSE c

\* The health handlers: part_004 lines 21-54 ask the upstream with fetch,
\* part_006 lines 6-38 with undici's request; the other builds' answer at
\* once, routes/health.js of part_005 without `env` (NODE_ENV is not set, and
\* JSON leaves an undefined member out).
HealthKind(b) ==
    CASE b = "part_004" -> "fetch"
      [] b = "index_router_fn" -> "request"
      [] OTHER -> "static"

HealthHandler(q) ==
    CASE HealthKind(build) # "static" ->
            [Awaiting("health", q, BASE \o "/health", NoCtx)
                EXCEPT !.auth = Authorization("header", KEY)]
      [] build = "index_router" ->
            Answered("health", q, Obj([ok |-> Bool(TRUE), service |-> Str("odds-backend-gpt")]))
      [] OTHER ->
            Answered("health", q,
                     Obj([ok |-> Bool(TRUE), service |-> Str("odds-backend-gpt"),
                          env |-> Str("dev"), time |-> Str("2024-01-01T00:00:00.000Z")]))

\* err.message when the connection fails, and when a body that was read (or
\* broke off) is read again: `await r.json()` throws and the catch awaits
\* r.text() of the same body.  The wording is the library's: fetch's in node
\* 18 and since node 20; undici's request throws 'unusable' or fails an
\* assertion, whose message differs between the undici of node 20 and of
\* node 22 (package.json names neither an engine nor undici)
HealthNetworkError(kind) == IF kind = "fetch" THEN {"fetch failed"} ELSE RequestErrors
BodyUnusable(kind) ==
    IF kind = "fetch"
    THEN {"Body is unusable", "Body is unusable: Body has already been read"}
    ELSE {"unusable", "false == true",
          "The expression evaluated to a falsy value:\n\n  assert(!stream[kConsume])\n"}

\* the answers; NODE_ENV is not set, time is the clock's reading
HealthOk(kind, status, backend) ==
    IF kind = "fetch"
    THEN Obj([ok |-> Bool(TRUE), service |-> Str("odds-backend-gpt"),
              env |-> Str("dev"), time |-> Str("2024-01-01T00:00:00.000Z"),
              backendStatus |-> Num(status), backend |-> backend])
    ELSE Obj([service |-> Str("odds-backend-gpt"), status |-> Str("ok"),
              backendStatus |-> Num(status), backend |-> backend])
HealthFailed(kind, message) ==
    IF kind = "fetch"
    THEN Obj([ok |-> Bool(FALSE), error |-> Str(message)])
    ELSE Obj([status |-> Str("error"), error |-> Str(message)])

\* the body has arrived: json() gives the parsed body, or throws on a text
\* that is no JSON, and then text() throws as well and the outer catch
\* answers 500
HealthResponds(r, body) ==
    LET kind == HealthKind(build)
        up == [status |-> r.status, body |-> body]
    IN  IF ParseBody(body) = SyntaxError
        THEN { Status(Completed(r, up, HealthFailed(kind, m)), 500) : m \in BodyUnusable(kind) }
        ELSE { Completed(r, up, HealthOk(kind, r.status, ParseBody(body))) }

---------------------------------------------------------------------------
(* The upstream's side, for every handler that awaits it.                  *)

\* fetch (undici's request) resolves with a status and headers: the handler
\* goes on to await the body, r.text() in part_004 lines 108-111, 138-141,
\* 175-178, 224-227
FetchResolves(status, h) ==
    /\ req.pc = "awaiting"
    /\ req' = ReadingText(req, status, h)
    /\ UNCHANGED <<stdTTL, KEY, build, cache, calls, lastSet, last>>
    /\ UNCHANGED <<resolveVars, normalizeVars, gateVars, oddsVars>>

\* the body has arrived: usage, status check, parse, answer
UpstreamResponds(body) ==
    /\ req.pc = "reading"
    /\ LET status == req.status
           usage == extractUsage(req.h)
           up == [status |-> status, body |-> body]
       IN  req' \in
             CASE req.route = "health" -> HealthResponds(req, body)
               [] req.route = "gpt" -> RouterResponds(req, body)
               [] build = "index_server" -> ServerResponds(req, body)
               [] status \notin 200..299 ->
                    { Completed(req, up,
                        IF build = "part_004"
                        THEN sendErr("Odds API " \o ToString(status),
                                     [upstream |-> safeParse(body), usage |-> usage])
                        ELSE sendErr("Odds API " \o ToString(status), [upstream |-> Str(body)])) }
               [] build # "part_004" /\ ParseBody(body) = SyntaxError ->
                    { Completed(req, up, sendErr(m, NoMeta)) : m \in SyntaxErrorMessage(body) }
               [] OTHER ->
                    { Completed(req, up,
                                Success(build, req.route, req.ctx, safeParse(body), usage)) }
    /\ cache' = RouterCache(cache, req, body)
    /\ UNCHANGED <<stdTTL, KEY, build, calls, lastSet, last>>
    /\ UNCHANGED <<resolveVars, normalizeVars, gateVars, oddsVars>>

\* the body breaks off after the status arrived: r.text() or r.json()
\* rejects, with 'terminated' from fetch, and the catch answers err.message;
\* in a health handler the catch of r.json() reads the body again
TextRejects ==
    /\ req.pc = "reading"
    /\ LET up == [status |-> req.status, body |-> ""]
       IN  req' \in
             CASE req.route = "health" ->
                    { Status(Completed(req, up, HealthFailed(HealthKind(build), m)), 500) :
                        m \in BodyUnusable(HealthKind(build)) }
               [] req.route = "gpt" ->
                    { Status(Completed(req, up, sendErr(m, NoMeta)), 400) : m \in BodyErrors }
               [] build = "index_server" ->
                    { Status(Completed(req, up, sendErr("terminated", NoMeta)), 500) }
               [] OTHER -> { Completed(req, up, sendErr("terminated", NoMeta)) }
    /\ UNCHANGED <<stdTTL, KEY, build, cache, calls, lastSet, last>>
    /\ UNCHANGED <<resolveVars, normalizeVars, gateVars, oddsVars>>

\* fetch (undici's request) rejects: no connection
FetchRejects ==
    /\ req.pc = "awaiting"
    /\ req' \in
         CASE req.route = "health" ->
                { Status(Completed(req, NoUpstream, HealthFailed(HealthKind(build), m)), 500) :
                    m \in HealthNetworkError(HealthKind(build)) }
           [] req.route = "gpt" ->
                { Status(Completed(req, NoUpstream, sendErr(m, NoMeta)), 400) :
                    m \in RequestErrors }
           [] build = "index_server" ->
                { Status(Completed(req, NoUpstream, sendErr("fetch failed", NoMeta)), 500) }
           [] OTHER -> { Completed(req, NoUpstream, sendErr("fetch failed", NoMeta)) }
    /\ UNCHANGED <<stdTTL, KEY, build, cache, calls, lastSet, last>>
    /\ UNCHANGED <<resolveVars, normalizeVars, gateVars, oddsVars>>

---------------------------------------------------------------------------
(* Numbers of the odds arithmetic.  A finite double is the exact fraction   *)
(* p/q; Eps(s) and Big(s) stand for the nonzero finite doubles of sign s    *)
(* whose magnitude is below 2^-60 and above 2^60: added to 1 the first      *)
(* ones vanish, and 100 divided by the second ones is one of the first.     *)
(* Huge(s) stands for the finite doubles of magnitude above 2^600: the      *)
(* product of two of them is beyond the largest double, so it is Infinity.  *)
\* F(v), with v worked out once however often F uses it
Let(F(_), v) == CHOOSE y \in { F(x) : x \in {v} } : TRUE

RECURSIVE GCD(_, _)
GCD(a, b) == IF b = 0 THEN a ELSE Let(LAMBDA r : GCD(b, r), a % b)

Abs(x) == IF x < 0 THEN 0 - x ELSE x

Fin(p, q) ==
    Let(LAMBDA x :
            Let(LAMBDA g : [t |-> "number", k |-> "fin", p |-> x[1] \div g, q |-> x[2] \div g],
                GCD(Abs(x[1]), x[2])),
        <<p, q>>)
Inf(s) == [t |-> "number", k |-> "inf", s |-> s]
Eps(s) == [t |-> "number", k |-> "eps", s |-> s]
Big(s) == [t |-> "number", k |-> "big", s |-> s]
Huge(s) == [t |-> "number", k |-> "huge", s |-> s]

Kind(v) == IF v.t = "NaN" THEN "nan" ELSE v.k

isFinite(v) == Kind(v) \in {"fin", "eps", "big", "huge"}
IsZero(v) == Kind(v) = "fin" /\ v.p = 0
Positive(v) == IF Kind(v) = "fin" THEN v.p > 0 ELSE Kind(v) # "nan" /\ v.s > 0

\* n <= 1 and n >= 2 (both false of NaN)
LeOne(v) ==
    CASE Kind(v) = "fin" -> v.p <= v.q
      [] Kind(v) = "eps" -> TRUE
      [] Kind(v) \in {"big", "huge", "inf"} -> v.s < 0
      [] OTHER -> FALSE
GeTwo(v) ==
    CASE Kind(v) = "fin" -> v.p >= 2 * v.q
      [] Kind(v) \in {"big", "huge", "inf"} -> v.s > 0
      [] OTHER -> FALSE

\* a * b of positive factors: a fraction at least 1 leaves a Big or Huge
\* one in its class, two Huge ones overflow, Infinity stays Infinity
Mul(a, b) ==
    Let(LAMBDA x :
            IF Kind(x[1]) = "fin" /\ Kind(x[2]) = "fin"
            THEN Fin(x[1].p * x[2].p, x[1].q * x[2].q)
            ELSE IF Kind(x[1]) = "inf" \/ Kind(x[2]) = "inf" THEN Inf(1)
            ELSE IF Kind(x[1]) = "huge" /\ Kind(x[2]) = "huge" THEN Inf(1)
            ELSE IF Kind(x[1]) = "huge" \/ Kind(x[2]) = "huge" THEN Huge(1)
            ELSE IF Kind(x[1]) = "fin" THEN x[2] ELSE x[1],
        <<a, b>>)

\* Math.round: the nearest integer, a tie towards +Infinity
Round(v) ==
    Let(LAMBDA x : IF Kind(x) = "fin" THEN Fin((2 * x.p + x.q) \div (2 * x.q), 1) ELSE x, v)

RECURSIVE Pow10(_)
Pow10(k) == IF k = 0 THEN 1 ELSE 10 * Pow10(k - 1)

\* the first d fraction digits of r/q as an integer, and what is left over
RECURSIVE FracDigits(_, _, _)
FracDigits(r, q, d) ==
    IF d = 0 THEN [n |-> 0, r |-> r]
    ELSE Let(LAMBDA f : [n |-> 10 * f.n + (10 * f.r) \div q, r |-> (10 * f.r) % q],
             FracDigits(r, q, d - 1))

\* Number(v.toFixed(d)) of a v >= 0: d fraction digits, a tie rounded up;
\* '0.0000' of the smallest ones, the number itself from 1e21 on
Fixed(v, d) ==
    IF Kind(v) = "eps" THEN Fin(0, 1)
    ELSE IF Kind(v) # "fin" THEN v
    ELSE Let(LAMBDA f :
                 Let(LAMBDA n :
                         Let(LAMBDA g : Fin((v.p \div v.q) * (Pow10(d) \div g) + n \div g,
                                            Pow10(d) \div g),
                             GCD(n, Pow10(d))),
                     IF 2 * f.r >= v.q THEN f.n + 1 ELSE f.n),
             FracDigits(v.p % v.q, v.q, d))

One == Fin(1, 1)
Zero == Fin(0, 1)

\* 1 / v of a v >= 1
Reciprocal(v) ==
    CASE Kind(v) = "fin" -> Fin(v.q, v.p)
      [] Kind(v) \in {"big", "huge"} -> Eps(v.s)
      [] OTHER -> Zero

\* clamp(v, 0, 1)
clamp(v) ==
    CASE Kind(v) = "fin" -> IF v.p < 0 THEN Zero ELSE IF v.p > v.q THEN One ELSE v
      [] Kind(v) = "nan" -> v
      [] Kind(v) = "eps" -> IF v.s < 0 THEN Zero ELSE v
      [] OTHER -> IF v.s < 0 THEN Zero ELSE One

\* String(n) of the numbers an error message quotes
NumText(v) ==
    CASE Kind(v) = "fin" /\ v.q = 1 -> ToString(v.p)
      [] Kind(v) = "inf" -> IF v.s > 0 THEN "Infinity" ELSE "-Infinity"
      [] Kind(v) = "nan" -> "NaN"
      [] OTHER -> ToString(v.p) \o "/" \o ToString(v.q)

\* position of the first element of cs that is in set, 0 when there is none
FirstIndex(cs, set) ==
    IF \E i \in DOMAIN cs : cs[i] \in set
    THEN CHOOSE i \in DOMAIN cs : cs[i] \in set /\ \A j \in 1..(i - 1) : cs[j] \notin set
    ELSE 0

DigitsOrNone(cs) == cs = <<>> \/ IsDigits(cs)

\* digits[.digits]: the fraction it denotes, NaN when it is not of that form
Mantissa(cs) ==
    LET dot == FirstIndex(cs, {"."})
        int == IF dot = 0 THEN cs ELSE SubSeq(cs, 1, dot - 1)
        frac == IF dot = 0 THEN <<>> ELSE SubSeq(cs, dot + 1, Len(cs))
    IN  IF DigitsOrNone(int) /\ DigitsOrNone(frac) /\ int \o frac # <<>>
        THEN Fin(DigitsValue(int \o frac), Pow10(Len(frac)))
        ELSE NaN

\* [+-]digits, as an integer; the exponent of a literal
SignedDigits(cs) ==
    IF cs # <<>> /\ Head(cs) = "-" THEN 0 - DigitsValue(Tail(cs))
    ELSE IF cs # <<>> /\ Head(cs) = "+" THEN DigitsValue(Tail(cs))
    ELSE DigitsValue(cs)
IsSignedDigits(cs) ==
    cs # <<>> /\ IsDigits(IF Head(cs) \in {"+", "-"} THEN Tail(cs) ELSE cs)

\* m * 10^e of a mantissa between 1 and 10; beyond six places the magnitude
\* classes (exponents between 7 and 18 either way, and from 150 to 199, are
\* not among the modelled inputs)
Scale(m, e) ==
    IF m.p = 0 \/ e = 0 THEN m
    ELSE IF e > 308 THEN Inf(1)
    ELSE IF e > 199 THEN Huge(1)
    ELSE IF e > 6 THEN Big(1)
    ELSE IF e < -6 THEN Eps(1)
    ELSE IF e > 0 THEN Fin(m.p * Pow10(e), m.q)
    ELSE Fin(m.p, m.q * Pow10(0 - e))

Negate(v) ==
    IF Kind(v) = "fin" THEN Fin(0 - v.p, v.q)
    ELSE IF Kind(v) = "nan" THEN v
    ELSE [v EXCEPT !.s = 0 - v.s]

\* decimal literal without sign
Unsigned(cs) ==
    LET e == FirstIndex(cs, {"e", "E"})
        x == IF e = 0 THEN <<>> ELSE SubSeq(cs, e + 1, Len(cs))
    IN  IF cs = <<"I","n","f","i","n","i","t","y">> THEN Inf(1)
        ELSE Let(LAMBDA m :
                     IF Kind(m) = "nan" THEN NaN
                     ELSE IF e = 0 THEN m
                     ELSE IF IsSignedDigits(x) THEN Scale(m, SignedDigits(x))
                     ELSE NaN,
                 Mantissa(IF e = 0 THEN cs ELSE SubSeq(cs, 1, e - 1)))

\* Number(s) of a string: StringToNumber on decimal literals
ToNumber(cs) ==
    Let(LAMBDA s :
            IF s = <<>> THEN Zero
            ELSE IF Head(s) = "-" THEN Negate(Unsigned(Tail(s)))
            ELSE Unsigned(IF Head(s) = "+" THEN Tail(s) ELSE s),
        Trim(cs))

---------------------------------------------------------------------------
(* Odds conversion and GET /api/gpt/parlay/price (part_003 lines 454-507,  *)
(* part_004 lines 240-291).  A call returns a value or throws a message.   *)
Ret(v) == [ok |-> TRUE, v |-> v, message |-> ""]
Throw(m) == [ok |-> FALSE, v |-> NaN, message |-> m]

\* Number(a) and `${a}` of a leg (a string) or a number
NumberValue(a) == IF a.t = "string" THEN ToNumber(a.cs) ELSE a
Text(a) == IF a.t = "string" THEN a.s ELSE NumText(a)

\* the same function with n === 0 let through
americanToDecimalNoZero(b, a) ==
    Let(LAMBDA n :
            IF ~isFinite(n)
            THEN Throw(IF b = "part_004" THEN "bad american leg: " \o Text(a) ELSE "bad american")
            ELSE Ret(CASE Kind(n) = "fin" /\ n.p > 0 -> Fin(100 * n.q + n.p, 100 * n.q)
                       [] Kind(n) = "fin" /\ n.p < 0 -> Fin(Abs(n.p) + 100 * n.q, Abs(n.p))
                       [] Kind(n) = "fin" -> Inf(1)
                       [] Kind(n) = "eps" -> IF n.s > 0 THEN One ELSE Big(1)
                       [] OTHER -> IF n.s > 0 THEN n ELSE One),
        NumberValue(a))

americanToDecimal(b, a) ==
    Let(LAMBDA n :
            IF ~isFinite(n) \/ IsZero(n)
            THEN Throw(IF b = "part_004" THEN "bad american leg: " \o Text(a) ELSE "bad american")
            ELSE Ret(CASE Kind(n) = "fin" /\ n.p > 0 -> Fin(100 * n.q + n.p, 100 * n.q)
                       [] Kind(n) = "fin" -> Fin(Abs(n.p) + 100 * n.q, Abs(n.p))
                       [] Kind(n) = "eps" -> IF n.s > 0 THEN One ELSE Big(1)
                       [] OTHER -> IF n.s > 0 THEN n ELSE One),
        NumberValue(a))

\* the same function with the branches split at n > 2
decimalToAmericanStrict(b, d) ==
    Let(LAMBDA n :
            IF (b = "part_004" /\ ~isFinite(n)) \/ LeOne(n)
            THEN Throw(IF b = "part_004" THEN "bad decimal: " \o Text(d) ELSE "bad decimal")
            ELSE IF Kind(n) # "fin" THEN Ret(n)
            ELSE IF n.p > 2 * n.q THEN Ret(Round(Fin(100 * (n.p - n.q), n.q)))
            ELSE Ret(Round(Fin(0 - 100 * n.q, n.p - n.q))),
        NumberValue(d))

decimalToAmerican(b, d) ==
    Let(LAMBDA n :
            IF (b = "part_004" /\ ~isFinite(n)) \/ LeOne(n)
            THEN Throw(IF b = "part_004" THEN "bad decimal: " \o Text(d) ELSE "bad decimal")
            ELSE IF Kind(n) # "fin" THEN Ret(n)
            ELSE IF GeTwo(n) THEN Ret(Round(Fin(100 * (n.p - n.q), n.q)))
            ELSE Ret(Round(Fin(0 - 100 * n.q, n.p - n.q))),
        NumberValue(d))

\* the decimal branch's inline parse of one leg
decimalLeg(d) ==
    Let(LAMBDA n :
            IF ~isFinite(n) \/ LeOne(n) THEN Throw("bad decimal leg: " \o Text(d)) ELSE Ret(n),
        NumberValue(d))

\* legsCsv.split(',').map(s => s.trim()).filter(Boolean), as character strings
RECURSIVE SplitChars(_, _)
SplitChars(cs, sep) ==
    LET i == FirstIndex(cs, {sep})
    IN  IF i = 0 THEN <<cs>>
        ELSE <<SubSeq(cs, 1, i - 1)>> \o SplitChars(SubSeq(cs, i + 1, Len(cs)), sep)

RECURSIVE NonEmpty(_)
NonEmpty(ss) ==
    IF ss = <<>> THEN <<>>
    ELSE IF Head(ss) = <<>> THEN NonEmpty(Tail(ss))
    ELSE <<Head(ss)>> \o NonEmpty(Tail(ss))

Legs(legsCsv) ==
    LET parts == SplitChars(legsCsv, ",")
    IN  NonEmpty([i \in DOMAIN parts |-> Trim(parts[i])])

\* legs.map(f) where f may throw: the message of the first leg that throws
Thrown(rs) == \E i \in DOMAIN rs : ~rs[i].ok
FirstThrown(rs) == rs[CHOOSE i \in DOMAIN rs : ~rs[i].ok /\ \A j \in 1..(i - 1) : rs[j].ok]

\* decimalLegs.reduce((acc, d) => acc * d, 1)
RECURSIVE Product(_)
Product(rs) == IF rs = <<>> THEN One ELSE Mul(Product(SubSeq(rs, 1, Len(rs) - 1)), rs[Len(rs)].v)

UnknownFormat(format) == "Unknown format \"" \o format \o "\" (use american|decimal)"

LocalUsage ==
    Obj([provider |-> Str("local"), used |-> Zero, remaining |-> Null, last |-> Zero])

\* a number as res.json writes it: JSON has no Infinity and no NaN
JsonNumber(v) == IF Kind(v) \in {"inf", "nan"} THEN Null ELSE v

\* from the product on: american, implied probability, res.json
Priced(b, format, legs, decimalLegs) ==
    Let(LAMBDA product :
            Let(LAMBDA american :
                    LET implied == clamp(Reciprocal(product))
                        body == [ok |-> Bool(TRUE),
                                 legs |-> Obj([format |-> Str(format),
                                               values |-> Arr([i \in DOMAIN legs |-> Str(Join(legs[i]))])]),
                                 price |-> Obj([decimal |-> JsonNumber(Fixed(product, 6)),
                                                american |-> JsonNumber(american.v),
                                                implied_probability |-> Fixed(Mul(implied, Fin(100, 1)), 4)])]
                    IN  IF ~american.ok THEN sendErr(american.message, NoMeta)
                        ELSE IF b = "part_004" THEN Obj(body @@ [usage |-> LocalUsage])
                        ELSE Obj(body),
                decimalToAmerican(b, product)),
        Product(decimalLegs))

\* the handler, from the query to the answer
parlayPrice(b, q) ==
    LET format == Join(ToLowerCase(IF Truthy(q.format) THEN q.format.cs
                                   ELSE <<"a","m","e","r","i","c","a","n">>))
        legsCsv == Trim(StringOr(q.legs))
        \* the decimal branch of either build
        decimal(legs) ==
            Let(LAMBDA parsed :
                    IF Thrown(parsed) THEN sendErr(FirstThrown(parsed).message, NoMeta)
                    ELSE Priced(b, format, legs, parsed),
                [i \in DOMAIN legs |-> decimalLeg(StrC(legs[i]))])
        \* part_003: every leg through americanToDecimal first, whatever the format
        early(legs) ==
            Let(LAMBDA decimals :
                    IF Thrown(decimals) THEN sendErr(FirstThrown(decimals).message, NoMeta)
                    ELSE IF format = "decimal" THEN decimal(legs)
                    ELSE Priced(b, format, legs, decimals),
                [i \in DOMAIN legs |-> americanToDecimal(b, StrC(legs[i]))])
        \* part_004: the american branch
        american(legs) ==
            Let(LAMBDA decimals :
                    IF Thrown(decimals) THEN sendErr(FirstThrown(decimals).message, NoMeta)
                    ELSE Priced(b, format, legs, decimals),
                [i \in DOMAIN legs |-> americanToDecimal(b, StrC(legs[i]))])
    IN  IF legsCsv = <<>> THEN sendErr("Missing ?legs (csv of odds)", NoMeta)
        ELSE Let(LAMBDA legs :
                     IF legs = <<>> THEN sendErr("No legs provided", NoMeta)
                     ELSE IF b = "part_003" THEN early(legs)
                     ELSE IF format = "american" THEN american(legs)
                     ELSE IF format = "decimal" THEN decimal(legs)
                     ELSE sendErr(UnknownFormat(format), NoMeta),
                 Legs(legsCsv))

\* Legs a request may carry, and the ways to write the format.
MaxLegs == 2
LegTokens ==
    { <<"-","1","1","0">>, <<"+","1","2","0">>, <<"-","2","0","0">>,
      <<"1","0","0">>, <<"-","1","0","0">>, <<"0">>, <<"a","b","c">>,
      <<"I","n","f","i","n","i","t","y">>, <<"-","1","e","1","9">>, <<"1","e","-","2","0">>,
      <<"1",".","5">>, <<"2">>, <<"1">>, <<"1","e","2","0","0">> }

RECURSIVE Csvs(_)
Csvs(n) ==
    IF n = 0 THEN {<<>>}
    ELSE LET shorter == Csvs(n - 1)
         IN  shorter \cup LegTokens
                \cup { c \o <<",">> \o t : c \in shorter \ {<<>>}, t \in LegTokens }

LegsValues ==
    {Undefined} \cup { StrC(c) : c \in Csvs(MaxLegs) }
        \cup { StrC(<<" ">>), StrC(<<",", " ", ",">>), StrC(<<" ", "-","1","1","0", " ", ",", ",">>) }
FormatValues ==
    { Undefined, StrC(<<"a","m","e","r","i","c","a","n">>), StrC(<<"d","e","c","i","m","a","l">>),
      StrC(<<"D","e","c","i","m","a","l">>), StrC(<<"b","o","g","u","s">>) }

ParlayQuery(format, legs) == [format |-> format, legs |-> legs]

ParlayPrice(q) ==
    /\ req.pc = "idle"
    /\ req' = Answered("parlay", q, parlayPrice(build, q))
    /\ UNCHANGED <<stdTTL, KEY, build, cache, calls, lastSet, last>>
    /\ UNCHANGED <<resolveVars, normalizeVars, gateVars, oddsVars>>

\* The conversion functions on their own: an American price there and back.
MaxAmerican == 200
AmericanInputs == { n \in (0 - MaxAmerican)..MaxAmerican : Abs(n) >= 100 }

RoundTrip ==
    /\ odds.pc = "start"
    /\ LET d == americanToDecimal(build, Fin(odds.n, 1))
       IN  odds' = [pc |-> "done", n |-> odds.n, decimal |-> d,
                    american |-> IF d.ok THEN decimalToAmerican(build, d.v) ELSE d]
    /\ UNCHANGED <<stdTTL, KEY, build, cache, calls, lastSet, last>>
    /\ UNCHANGED <<handlerVars, resolveVars, normalizeVars, gateVars>>

---------------------------------------------------------------------------
(* The middleware chain of each server build: routes and the API key gate  *)
(* in the order app.get / app.use register them.                           *)
(* app.use(path, x) mounts a Router, which takes the requests that one of   *)
(* its own routes matches and hands every other one on, or a plain         *)
(* function, which takes every request on or below the path.               *)
Route(path, name) == [kind |-> "get", path |-> path, name |-> name, subs |-> {}]
Use(path, name) == [kind |-> "use", path |-> path, name |-> name, subs |-> {}]
Router(path, name, subs) == [kind |-> "router", path |-> path, name |-> name, subs |-> subs]
Gate == [kind |-> "gate", path |-> "", name |-> "gate", subs |-> {}]
NotFound == [kind |-> "notfound", path |-> "", name |-> "notfound", subs |-> {}]

\* index_router is src/index.js lines 190-220 with routes/health.js the
\* Router of part_005, index_router_fn the same with routes/health.js the
\* handler function of part_006 lines 1-38
GateBuilds ==
    {"index_min", "index_server", "index_router", "index_router_fn",
     "part_003_early", "part_003", "part_004"}

Chain(b) ==
    CASE b = "index_min" ->
            << Route("/", "root"), Route("/api/health", "health"), NotFound >>
      [] b = "index_server" ->
            << Route("/api/health", "health"), Gate,
               Route("/api/gpt/scan", "scan"), Route("/api/gpt/markets", "markets"),
               Route("/api/diag/routes", "diag"), Route("/", "root"), NotFound >>
      [] b = "index_router" ->
            << Gate, Router("/api/health", "health", {"/"}),
               Router("/api/gpt", "gpt", {"/scan", "/markets"}), Route("/", "root") >>
      [] b = "index_router_fn" ->
            << Gate, Use("/api/health", "health"),
               Router("/api/gpt", "gpt", {"/scan", "/markets"}), Route("/", "root") >>
      [] b = "part_003_early" ->
            << Route("/api/health", "health"), Gate,
               Route("/api/gpt/sports", "sports"), Route("/api/gpt/scan", "scan"),
               Route("/api/gpt/markets", "markets"),
               Route("/api/diag/routes", "diag"), Route("/", "root"), NotFound >>
      [] b = "part_003" ->
            << Route("/api/health", "health"), Gate,
               Route("/api/gpt/sports", "sports"), Route("/api/gpt/scan", "scan"),
               Route("/api/gpt/markets", "markets"), Route("/api/gpt/markets/preset", "preset"),
               Route("/api/gpt/parlay/price", "parlay"),
               Route("/api/diag/routes", "diag"), Route("/", "root"), NotFound >>
      [] OTHER ->
            << Route("/", "root"), Route("/api/health", "health"), Gate,
               Route("/api/gpt/sports", "sports"), Route("/api/gpt/scan", "scan"),
               Route("/api/gpt/markets", "markets"), Route("/api/gpt/markets/preset", "preset"),
               Route("/api/gpt/parlay/price", "parlay"),
               Route("/api/diag/routes", "diag") >>

\* does an entry of the chain take the request
Matches(e, method, path) ==
    CASE e.kind = "get" -> method = "GET" /\ path = e.path
      [] e.kind = "use" -> path = e.path \/ StartsWith(path, e.path \o "/")
      [] e.kind = "router" ->
            method = "GET" /\ \E sub \in e.subs : path = e.path \o (IF sub = "/" THEN "" ELSE sub)
      [] OTHER -> TRUE

\* the gate calls next(): if (!required) return next(); if (key !== required) 401; next()
GatePasses(required, key) == ~Truthy(required) \/ key = required

Unauthorized == [http |-> 401, body |-> Obj([ok |-> Bool(FALSE), reason |-> Str("unauthorized")])]
NoRoute(method, path) ==
    [http |-> 404, body |-> Obj([ok |-> Bool(FALSE), reason |-> Str("No route: " \o method \o " " \o path)])]
\* express's own answer when the chain is exhausted: a page, not JSON
Finalhandler(method, path) ==
    [http |-> 404,
     body |-> Str("<!DOCTYPE html>\n<html lang=\"en\">\n<head>\n<meta charset=\"utf-8\">\n"
                  \o "<title>Error</title>\n</head>\n<body>\n<pre>Cannot " \o method \o " "
                  \o path \o "</pre>\n</body>\n</html>\n")]

\* who takes the request: the gate that refuses it, the handler of the first
\* entry that matches, the 404 helper, or express when the chain is exhausted
RECURSIVE Serve(_, _, _, _, _)
Serve(chain, required, method, path, key) ==
    IF chain = <<>> THEN "finalhandler"
    ELSE LET e == Head(chain)
         IN  IF ~Matches(e, method, path) THEN Serve(Tail(chain), required, method, path, key)
             ELSE IF e.kind = "gate"
             THEN IF GatePasses(required, key)
                  THEN Serve(Tail(chain), required, method, path, key)
                  ELSE "gate"
             ELSE e.name

\* the diagnostics handler lists app._router.stack: the routes, in the
\* order they were registered
Routes(chain) ==
    LET rs == SelectSeq(chain, LAMBDA e : e.kind = "get")
    IN  Arr([i \in DOMAIN rs |-> Obj([method |-> Str("GET"), path |-> Str(rs[i].path)])])

\* GET / : src/index.js line 217 answers without `root` (SERVICE_NAME not set)
Root(b) ==
    IF b \in {"index_router", "index_router_fn"}
    THEN Obj([ok |-> Bool(TRUE), service |-> Str("odds-backend-gpt")])
    ELSE Obj([ok |-> Bool(TRUE), service |-> Str("odds-backend-gpt"), root |-> Bool(TRUE)])

\* The handler that takes the request, run to its answer or to its first
\* await.  The router's fetchOdds is either version of services/oddsApi.js.
Handle(by, q) ==
    CASE by = "gate" -> { [Answered(by, q, Undefined) EXCEPT !.res = Unauthorized] }
      [] by = "notfound" ->
            { [Answered(by, q, Undefined) EXCEPT !.res = NoRoute(q.method, q.path)] }
      [] by = "finalhandler" ->
            { [Answered(by, q, Undefined) EXCEPT !.res = Finalhandler(q.method, q.path)] }
      [] by = "root" -> { Answered(by, q, Root(build)) }
      [] by = "health" -> { HealthHandler(q) }
      [] by = "diag" ->
            { Answered(by, q, Obj([ok |-> Bool(TRUE), routes |-> Routes(Chain(build))])) }
      [] by = "sports" -> { SportsHandler(q) }
      [] by = "scan" -> { IF build = "index_server" THEN ServerScan(q) ELSE ScanHandler(q) }
      [] by = "markets" ->
            { IF build = "index_server" THEN ServerMarkets(q) ELSE MarketsHandler(q) }
      [] by = "preset" -> { PresetHandler(q) }
      [] by = "parlay" -> { Answered(by, q, parlayPrice(build, q)) }
      [] OTHER -> { RouterHandler(api, q) : api \in {"header", "query"} }

Methods == {"GET", "POST"}
Paths ==
    { "/", "/api/health", "/api/gpt/sports", "/api/gpt/scan", "/api/gpt/markets",
      "/api/gpt/markets/preset", "/api/gpt/parlay/price", "/api/diag/routes", "/nope" }
ApiKeys == { Undefined, Str(""), Str("secret"), Str("wrong") }
PublicApiKeys == { Undefined, Str(""), Str("secret") }

\* req.query: none; a sport; a game of it; every parameter; a sport no alias
\* names; a sport and a game named too briefly for the router's schema
GateQuery(sport, eventId, preset, limit, legs) ==
    [sport |-> sport, eventId |-> eventId, preset |-> preset, markets |-> Undefined,
     limit |-> limit, format |-> Undefined, legs |-> legs]
GateQueries ==
    LET mlb == StrC(<<"m","l","b">>)
        evt == StrC(<<"e","v","t","1">>)
    IN  { GateQuery(Undefined, Undefined, Undefined, Undefined, Undefined),
          GateQuery(mlb, Undefined, Undefined, Undefined, Undefined),
          GateQuery(mlb, evt, Undefined, Undefined, Undefined),
          GateQuery(mlb, evt, StrC(<<"m","o","n","e","y","l","i","n","e">>),
                    StrC(<<"1">>), StrC(<<"-","1","1","0", ",", "+","1","2","0">>)),
          GateQuery(mlb, Undefined, Undefined, StrC(<<"x">>), Undefined),
          GateQuery(StrC(<<"x","y","z">>), evt, Undefined, Undefined, Undefined),
          GateQuery(StrC(<<"m">>), StrC(<<"e","1">>), Undefined, Undefined, Undefined) }

\* the bodies the upstream sends: those of the handlers, and a JSON value
\* that is neither null nor an array
GateBodies == HandlerBodies \cup {"0"}

\* one request through the chain and through the synchronous run of the
\* handler that takes it; q is the request: method, path, x-api-key, query
Dispatch(method, path, key, query) ==
    /\ req.pc = "idle"
    /\ LET q == query @@ [method |-> method, path |-> path, key |-> key]
       IN  req' \in Handle(Serve(Chain(build), PUBLIC_API_KEY, method, path, key), q)
    /\ UNCHANGED <<stdTTL, KEY, build, cache, calls, lastSet, last>>
    /\ UNCHANGED <<resolveVars, normalizeVars, gateVars, oddsVars>>

---------------------------------------------------------------------------
(* Specifications.                                                         *)
NextFetch ==
    \/ \E e \in Endpoints, p \in ParamsSet : FetchStart(e, p)
    \/ \E k \in Keys, s \in Statuses : RequestResolves(k, s)
    \/ \E k \in Keys, s \in Statuses, b \in Bodies : UpstreamReply(k, s, b)
    \/ \E k \in Keys, s \in Statuses : BodyRejects(k, s)
    \/ \E k \in Keys : RequestFails(k)
    \/ Tick

\* odds.js loaded (part_001 or part_002), nothing cached, no call made; the
\* other components at rest
InitFetch ==
    /\ stdTTL \in 1..MaxTTL
    /\ KEY \in {Undefined, Secret}
    /\ build \in {"header", "query"}
    /\ cache = [k \in Keys |-> NoEntry]
    /\ calls = [k \in Keys |-> NoCalls]
    /\ lastSet = [k \in Keys |-> NoEntry]
    /\ last = NoLast
    /\ req = [pc |-> "idle"]
    /\ rsIn = Undefined /\ rsOut = Undefined
    /\ nzRaw = <<>> /\ nzOut = Pending
    /\ PUBLIC_API_KEY = Undefined /\ odds = [pc |-> "idle"]

SpecFetch == InitFetch /\ [][NextFetch]_vars

\* a value about to be resolved
InitResolve ==
    /\ rsIn \in SportInputs /\ rsOut = [t |-> "pending"]
    /\ stdTTL = 0 /\ KEY = Undefined /\ build = ""
    /\ cache = <<>> /\ calls = <<>> /\ lastSet = <<>> /\ last = NoLast
    /\ req = [pc |-> "idle"]
    /\ nzRaw = <<>> /\ nzOut = Pending
    /\ PUBLIC_API_KEY = Undefined /\ odds = [pc |-> "idle"]

SpecResolve == InitResolve /\ [][Resolve]_vars

NextHandler ==
    \/ SportsStart
    \/ \E s \in SportValues, m \in MarketsValues, l \in LimitValues :
          ScanStart(Query(s, Undefined, Undefined, m, l))
    \/ \E s \in SportValues, e \in EventIdValues, m \in MarketsValues :
          MarketsStart(Query(s, e, Undefined, m, Undefined))
    \/ \E s \in SportValues, e \in EventIdValues, p \in PresetValues :
          PresetStart(Query(s, e, p, Undefined, Undefined))
    \/ \E s \in HandlerStatuses, h \in HeaderSets : FetchResolves(s, h)
    \/ \E b \in HandlerBodies : UpstreamResponds(b)
    \/ TextRejects
    \/ FetchRejects

\* a server build started, with or without the credential, no request yet
InitHandler ==
    /\ build \in HandlerBuilds
    /\ KEY \in {Undefined, Secret}
    /\ req = [pc |-> "idle"]
    /\ stdTTL = 0
    /\ cache = <<>> /\ calls = <<>> /\ lastSet = <<>> /\ last = NoLast
    /\ rsIn = Undefined /\ rsOut = Undefined
    /\ nzRaw = <<>> /\ nzOut = Pending
    /\ PUBLIC_API_KEY = Undefined /\ odds = [pc |-> "idle"]

SpecHandler == InitHandler /\ [][NextHandler]_vars

\* a server build started, a parlay request about to arrive
InitParlay ==
    /\ build \in HandlerBuilds
    /\ req = [pc |-> "idle"]
    /\ KEY = Undefined /\ stdTTL = 0
    /\ cache = <<>> /\ calls = <<>> /\ lastSet = <<>> /\ last = NoLast
    /\ rsIn = Undefined /\ rsOut = Undefined
    /\ nzRaw = <<>> /\ nzOut = Pending
    /\ PUBLIC_API_KEY = Undefined /\ odds = [pc |-> "idle"]

NextParlay == \E f \in FormatValues, l \in LegsValues : ParlayPrice(ParlayQuery(f, l))

SpecParlay == InitParlay /\ [][NextParlay]_vars

\* an American price about to be converted
InitOdds ==
    /\ build \in HandlerBuilds
    /\ odds \in { [pc |-> "start", n |-> n] : n \in AmericanInputs }
    /\ req = [pc |-> "idle"]
    /\ KEY = Undefined /\ stdTTL = 0
    /\ cache = <<>> /\ calls = <<>> /\ lastSet = <<>> /\ last = NoLast
    /\ rsIn = Undefined /\ rsOut = Undefined
    /\ nzRaw = <<>> /\ nzOut = Pending
    /\ PUBLIC_API_KEY = Undefined

SpecOdds == InitOdds /\ [][RoundTrip]_vars

\* a server build started with its environment, a request about to arrive
InitGate ==
    /\ build \in GateBuilds
    /\ PUBLIC_API_KEY \in PublicApiKeys
    /\ req = [pc |-> "idle"]
    /\ KEY \in {Undefined, Secret} /\ stdTTL = 0
    /\ cache = <<>> /\ calls = <<>> /\ lastSet = <<>> /\ last = NoLast
    /\ rsIn = Undefined /\ rsOut = Undefined
    /\ nzRaw = <<>> /\ nzOut = Pending
    /\ odds = [pc |-> "idle"]

NextGate ==
    \/ \E m \in Methods, p \in Paths, k \in ApiKeys, q \in GateQueries : Dispatch(m, p, k, q)
    \/ \E s \in HandlerStatuses, h \in HeaderSets : FetchResolves(s, h)
    \/ \E b \in GateBodies : UpstreamResponds(b)
    \/ TextRejects
    \/ FetchRejects

SpecGate == InitGate /\ [][NextGate]_vars

NextNormalize == ApplyNormalizeEvents \/ ApplyScanA \/ ApplyScanB \/ ApplyScanC

\* a list of raw events about to be normalized
InitNormalize ==
    /\ nzRaw \in RawLists(MaxEvents) /\ nzOut = Pending
    /\ stdTTL = 0 /\ KEY = Undefined /\ build = ""
    /\ cache = <<>> /\ calls = <<>> /\ lastSet = <<>> /\ last = NoLast
    /\ req = [pc |-> "idle"]
    /\ rsIn = Undefined /\ rsOut = Undefined
    /\ PUBLIC_API_KEY = Undefined /\ odds = [pc |-> "idle"]

SpecNormalize == InitNormalize /\ [][NextNormalize]_vars

---------------------------------------------------------------------------
(* Properties of the cached upstream client.                               *)

\* the time since the last successful fetch of k is less than the TTL
Fresh(k) == lastSet[k].has /\ lastSet[k].age < stdTTL

\* p and q hold the same name/value pairs
SamePairs(p, q) == { p[i] : i \in DOMAIN p } = { q[i] : i \in DOMAIN q }

\* C1: once a fetchOdds call for an endpoint/params pair has completed
\* successfully, every later call for that pair that starts before the TTL
\* has elapsed returns the stored payload and sends no upstream request.
C1_HitWithinTTL ==
    [][\A e \in Endpoints, p \in ParamsSet :
        (KEY # Undefined /\ FetchStart(e, p) /\ Fresh(CacheKey(e, p)))
            => /\ calls' = calls
               /\ last'.pc = "returned" /\ ~last'.sent
               /\ last'.result = lastSet[CacheKey(e, p)].v]_vars

\* C2: for a fixed endpoint, params objects with the same pairs in another
\* order give the same cache key, so a request after a stored payload of the
\* other order is a cache hit.
C2_KeyOrderIndependent ==
    [][\A e \in Endpoints, p \in ParamsSet, q \in ParamsSet :
        (/\ KEY # Undefined
         /\ SamePairs(p, q)
         /\ Fresh(CacheKey(e, p)) /\ Truthy(lastSet[CacheKey(e, p)].v)
         /\ FetchStart(e, q))
            => /\ CacheKey(e, q) = CacheKey(e, p)
               /\ calls' = calls
               /\ last'.pc = "returned" /\ ~last'.sent
               /\ last'.result = lastSet[CacheKey(e, p)].v]_vars

\* C3: after set(k, v), a get(k) returns v while less than the TTL has
\* passed and absent once more than the TTL has passed, however many
\* get(k) came in between, as long as no other set(k, _) intervened.
C3_TTLWindow ==
    \A k \in Keys :
        lastSet[k].has =>
            /\ lastSet[k].age < stdTTL => CacheGet(cache, k, stdTTL) = lastSet[k].v
            /\ lastSet[k].age > stdTTL => CacheGet(cache, k, stdTTL) = Undefined

\* a hit was served from an entry, and the entry has since expired
C3_Witness ==
    /\ last.pc = "returned" /\ ~last.sent
    /\ lastSet[last.key].age > stdTTL
    /\ lastSet[last.key].v = last.result
    /\ CacheGet(cache, last.key, stdTTL) = Undefined

\* C4: a non-2xx answer makes the call fail with an error carrying status
\* and body, return no payload and leave the cache as it was; only a
\* successful upstream fetch creates a cache entry.
C4_NonSuccessFails ==
    /\ (KEY # Undefined /\ last.sent /\ last.status # 0 /\ last.status \notin 200..299)
        => /\ last.pc = "threw"
           /\ last.result.t = "error" /\ last.result.status = last.status
           /\ ~last.wrote
    /\ last.wrote => last.status \in 200..299

\* C5: without ODDS_API_KEY, fetchOdds fails with a configuration error
\* before any request is sent.
C5_NoKeyNoRequest ==
    KEY = Undefined =>
        /\ InFlight = 0
        /\ ~last.sent
        /\ last.pc # "none" =>
              (last.pc = "threw" /\ last.result.t = "error"
               /\ last.result.name = "ConfigurationError")

---------------------------------------------------------------------------
(* Properties of the sport alias resolver.                                 *)

\* C7: resolveSportKey returns the mapped key for every alias, returns an
\* input that contains '_' unchanged, and returns null for every other
\* (unknown, empty or whitespace-only) token.  Input is read as the resolver
\* reads it, trimmed and in lower case.
C7_ResolveContract ==
    (rsOut.t # "pending" /\ rsIn.t = "string") =>
        LET v == Join(ToLowerCase(Trim(rsIn.cs)))
        IN  IF v \in DOMAIN SPORT_ALIASES THEN rsOut = SPORT_ALIASES[v]
            ELSE IF Includes(rsIn.cs, "_") THEN rsOut = StrC(ToLowerCase(Trim(rsIn.cs)))
            ELSE rsOut = Null

---------------------------------------------------------------------------
(* Properties of the normalizers.                                          *)
IsArray(v) == v.t = "array"
Elems(v) == { v.a[i] : i \in DOMAIN v.a }
ArrayOrEmpty(v) == IF IsArray(v) THEN v.a ELSE <<>>

\* bookmakers, and below it every markets and outcomes, is an array
Iterable(ev) ==
    /\ IsArray(Get(ev, "bookmakers"))
    /\ \A b \in Elems(Get(ev, "bookmakers")) :
          /\ IsArray(Get(b, "markets"))
          /\ \A m \in Elems(Get(b, "markets")) : IsArray(Get(m, "outcomes"))

\* the outcomes of a raw event and of its normalized form, position by position
PointsDefaulted(raw, ev) ==
    LET rb == ArrayOrEmpty(Get(raw, "bookmakers"))
        eb == ArrayOrEmpty(Get(ev, "bookmakers"))
    IN  \A i \in DOMAIN rb \cap DOMAIN eb :
          LET rm == ArrayOrEmpty(Get(rb[i], "markets"))
              em == ArrayOrEmpty(Get(eb[i], "markets"))
          IN  \A j \in DOMAIN rm \cap DOMAIN em :
                LET ro == ArrayOrEmpty(Get(rm[j], "outcomes"))
                    eo == ArrayOrEmpty(Get(em[j], "outcomes"))
                IN  \A k \in DOMAIN ro \cap DOMAIN eo :
                      "point" \notin DOMAIN ro[k].o => Get(eo[k], "point") = Null

KeysOf(a, f) == [i \in DOMAIN a |-> Get(a[i], f)]

\* same events, bookmakers, markets and outcomes, in the same order
SameOrder(raw, ev) ==
    LET rb == ArrayOrEmpty(Get(raw, "bookmakers"))
        eb == ArrayOrEmpty(Get(ev, "bookmakers"))
    IN  /\ Get(ev, "home") = Get(raw, "home_team")
        /\ Get(ev, "away") = Get(raw, "away_team")
        /\ KeysOf(eb, "key") = KeysOf(rb, "key")
        /\ \A i \in DOMAIN rb \cap DOMAIN eb :
              LET rm == ArrayOrEmpty(Get(rb[i], "markets"))
                  em == ArrayOrEmpty(Get(eb[i], "markets"))
              IN  /\ KeysOf(em, "key") = KeysOf(rm, "key")
                  /\ \A j \in DOMAIN rm \cap DOMAIN em :
                        KeysOf(ArrayOrEmpty(Get(em[j], "outcomes")), "name")
                          = KeysOf(ArrayOrEmpty(Get(rm[j], "outcomes")), "name")

\* C9: the events normalizeEvents and the scan handlers return never hold a
\* null or missing bookmakers, markets or outcomes collection, give point =
\* null to every outcome whose raw point is absent, and keep the raw order.
C9_NormalizedCollections ==
    nzOut # Pending =>
        /\ Len(nzOut.out) = Len(nzRaw)
        /\ \A i \in DOMAIN nzRaw :
              /\ Iterable(nzOut.out[i])
              /\ PointsDefaulted(nzRaw[i], nzOut.out[i])
              /\ SameOrder(nzRaw[i], nzOut.out[i])

\* every field of the canonical shape holds a value other than undefined
Explicit(o, fields) == \A f \in fields : f \in DOMAIN o.o /\ o.o[f] # Undefined

ExplicitEvent(ev) ==
    /\ Explicit(ev, {"id", "sport_key", "commence_time", "home", "away", "bookmakers"})
    /\ \A b \in Elems(Get(ev, "bookmakers")) :
          /\ Explicit(b, {"key", "title", "markets"})
          /\ \A m \in Elems(Get(b, "markets")) :
                /\ Explicit(m, {"key", "outcomes"})
                /\ \A o \in Elems(Get(m, "outcomes")) : Explicit(o, {"name", "price", "point"})

\* C10: in every normalized event every field of the canonical shape is
\* present with an explicit value (null or an empty container when the raw
\* payload lacks it), never undefined or missing.
C10_ExplicitFields ==
    nzOut.fn \in {"normalizeEvents", "scanA"} =>
        \A i \in DOMAIN nzOut.out : ExplicitEvent(nzOut.out[i])

---------------------------------------------------------------------------
(* Properties of the handlers.                                             *)
Failed(r) == Get(r.res.body, "ok") = Bool(FALSE) /\ Get(r.res.body, "reason").t = "string"
Payload(r) ==
    IF r.route = "sports" THEN Get(r.res.body, "sports")
    ELSE IF r.route = "scan" THEN Get(r.res.body, "events")
    ELSE Get(r.res.body, "data")

\* C6: a 2xx upstream response whose body is not valid JSON makes the
\* operation answer with an explicit failure, never with a success whose
\* payload is the unparsed body.
C6_MalformedFails ==
    (/\ req.pc = "done" /\ req.sent
     /\ req.upstream.status \in 200..299
     /\ ParseBody(req.upstream.body) = SyntaxError)
        => /\ Failed(req)
           /\ Payload(req) # Str(req.upstream.body)

\* the token lists the presets are documented to stand for
PresetTokens ==
    [moneyline |-> <<"h2h">>,
     spreads |-> <<"spreads">>,
     totals |-> <<"totals">>,
     first_half |-> <<"h2h_h1", "spreads_h1", "totals_h1">>,
     f5 |-> <<"h2h_1st_5_innings", "spreads_1st_5_innings", "totals_1st_5_innings">>,
     props_basic |-> <<"pitcher_strikeouts", "batter_home_run", "batter_hits_over_under",
                       "batter_total_bases_over_under">>]

RECURSIVE Commas(_)
Commas(tokens) ==
    IF Len(tokens) <= 1 THEN tokens
    ELSE <<Head(tokens), ",">> \o Commas(Tail(tokens))

\* the preset request was complete: credential set, sport resolved to a
\* key, event and preset named
PresetAsked(r) ==
    /\ r.pc \in {"awaiting", "reading", "done"} /\ r.route = "preset"
    /\ Truthy(KEY)
    /\ resolveSportKey(r.q.sport).t = "string"
    /\ Trim(StringOr(r.q.eventId)) # <<>>
    /\ Trim(StringOr(r.q.preset)) # <<>>

PresetName(r) == Join(ToLowerCase(Trim(StringOr(r.q.preset))))

IsBaseball(r) ==
    LET k == resolveSportKey(r.q.sport)
    IN  k.t = "string" /\ StartsWith(k.cs, <<"b","a","s","e","b","a","l","l","_">>)

Rejected(r, reason) ==
    /\ r.pc = "done" /\ ~r.sent
    /\ r.res.body = sendErr(reason, NoMeta)

\* C8: /markets/preset sends upstream, and reports back, exactly the
\* documented token list of a preset of the table; rejects every name that
\* is not in the table as unknown; and rejects 'f5' as a domain mismatch
\* when the sport key does not start with 'baseball_'.
C8_PresetResolution ==
    PresetAsked(req) =>
        LET name == PresetName(req)
        IN  IF name \notin DOMAIN PresetTokens
            THEN Rejected(req, UnknownPreset(ToLowerCase(Trim(StringOr(req.q.preset)))))
            ELSE IF name = "f5" /\ ~IsBaseball(req)
            THEN Rejected(req, F5Reason(build))
            ELSE /\ req.pc \in {"awaiting", "reading"} \/ req.sent
                 /\ req.url = EventUrl(build, resolveSportKey(req.q.sport),
                                       Trim(StringOr(req.q.eventId)),
                                       StrC(Commas(PresetTokens[name])), KEY)
                 /\ (req.pc = "done" /\ Get(req.res.body, "ok") = Bool(TRUE))
                       => Get(req.res.body, "markets")
                            = Arr([i \in DOMAIN PresetTokens[name] |-> Str(PresetTokens[name][i])])

---------------------------------------------------------------------------
(* Parlay pricing. *)
ParlayDone == req.pc = "done" /\ req.route = "parlay"

\* the format a request asks for, lower-cased, 'american' when it names none
AskedFormat(r) ==
    IF r.q.format.t = "string" /\ r.q.format.cs # <<>> THEN Join(ToLowerCase(r.q.format.cs))
    ELSE "american"
\* the legs it lists
AskedLegs(r) == IF r.q.legs.t = "string" THEN Legs(Trim(r.q.legs.cs)) ELSE <<>>
HasPrice(r) == Get(r.res.body, "price") # Undefined

\* C11: a request whose format, lower-cased, is neither 'american' nor
\* 'decimal' fails, and carries no price, whatever its legs, in every build
\* with the parlay route.
C11_UnknownFormatFails ==
    (ParlayDone /\ AskedFormat(req) \notin {"american", "decimal"})
        => (Failed(req) /\ ~HasPrice(req))

\* a leg that the format named must refuse
BadAmerican(leg) == ~isFinite(ToNumber(leg)) \/ IsZero(ToNumber(leg))
BadDecimal(leg) == ~isFinite(ToNumber(leg)) \/ LeOne(ToNumber(leg))
BadLeg(format, leg) == IF format = "american" THEN BadAmerican(leg) ELSE BadDecimal(leg)
NoLegsReasons == {Str("Missing ?legs (csv of odds)"), Str("No legs provided")}

\* C12: with format american a leg that is 0 or not finite, and with format
\* decimal a leg that is <= 1 or not finite, fails the whole call, and a
\* list with no legs left after trimming fails with a no-legs reason.
C12_BadLegsRejected ==
    (ParlayDone /\ AskedFormat(req) \in {"american", "decimal"})
        => /\ (\E i \in DOMAIN AskedLegs(req) : BadLeg(AskedFormat(req), AskedLegs(req)[i]))
                => (Failed(req) /\ ~HasPrice(req))
           /\ AskedLegs(req) = <<>>
                => (Failed(req) /\ Get(req.res.body, "reason") \in NoLegsReasons)

\* C12 witness: two legs, the first good and the second bad, and the call failed
C12_Witness ==
    /\ ParlayDone /\ AskedFormat(req) \in {"american", "decimal"}
    /\ Len(AskedLegs(req)) = 2
    /\ ~BadLeg(AskedFormat(req), AskedLegs(req)[1])
    /\ BadLeg(AskedFormat(req), AskedLegs(req)[2])
    /\ Failed(req)

\* a request with format american or decimal whose legs all pass validation
AllLegsValid(r) ==
    /\ r.pc = "done" /\ r.route = "parlay" /\ AskedFormat(r) \in {"american", "decimal"}
    /\ AskedLegs(r) # <<>>
    /\ \A i \in DOMAIN AskedLegs(r) : ~BadLeg(AskedFormat(r), AskedLegs(r)[i])

\* the decimal odds of one valid leg, and of the whole list
LegDecimal(format, leg) ==
    LET n == ToNumber(leg)
    IN  IF format = "decimal" THEN n
        ELSE IF Kind(n) # "fin" THEN americanToDecimal(build, StrC(leg)).v
        ELSE IF n.p > 0 THEN Fin(100 * n.q + n.p, 100 * n.q)
        ELSE Fin(Abs(n.p) + 100 * n.q, Abs(n.p))
Combined(r) ==
    LET legs == AskedLegs(r)
    IN  Product([i \in DOMAIN legs |-> Ret(LegDecimal(AskedFormat(r), legs[i]))])
\* round((d-1)*100) when d >= 2, round(-100/(d-1)) otherwise, by nearest integer
Nearest(p, q) == CHOOSE k \in ((p \div q) - 1)..((p \div q) + 1) : 2 * Abs(k * q - p) <= q /\ 2 * ((k + 1) * q - p) > q
AmericanOf(d) ==
    IF d.p >= 2 * d.q THEN Fin(Nearest(100 * (d.p - d.q), d.q), 1)
    ELSE Fin(Nearest(0 - 100 * d.q, d.p - d.q), 1)
Price(r, field) == Get(Get(r.res.body, "price"), field)
DecimalExample(r) ==
    (AskedFormat(r) = "decimal" /\ r.q.legs = StrC(<<"1",".","5">>))
        => (Price(r, "decimal") = Fin(3, 2) /\ Price(r, "american") = Fin(-200, 1))

\* C13: every non-empty list of valid legs has a result; its combined
\* decimal price is the product of the per-leg decimal odds (reported to six
\* places) and its combined American price is round((d-1)*100) for d >= 2
\* and round(-100/(d-1)) otherwise; decimal leg [1.5] gives 1.5 and -200.
\* (For american legs [-110,-110] this formula gives +264 where the example
\* says +265, so that example is stated by the formula alone.)
C13_PriceFormula ==
    AllLegsValid(req)
        => /\ Get(req.res.body, "ok") = Bool(TRUE)
           /\ Price(req, "decimal") = Fixed(Combined(req), 6)
           /\ Kind(Combined(req)) = "fin"
                => Price(req, "american") = AmericanOf(Combined(req))
           /\ DecimalExample(req)

---------------------------------------------------------------------------
(* The two conversions, there and back. *)

\* C14 as stated: decimalToAmerican(americanToDecimal(n)) = n for every
\* integer n with |n| >= 100.
C14_AsStated ==
    odds.pc = "done" => odds.american = Ret(Fin(odds.n, 1))

\* C14 amended: decimalToAmerican(americanToDecimal(n)) = n for every
\* integer n with |n| >= 100 other than -100, and -100 comes back as +100.
C14_RoundTrip ==
    odds.pc = "done"
        => odds.american = Ret(Fin(IF odds.n = -100 THEN 100 ELSE odds.n, 1))

\* C14 witness: a negative and even-money price have made the trip
C14_Witness ==
    /\ odds.pc = "done" /\ odds.n = -100
    /\ odds.decimal = Ret(Fin(2, 1)) /\ odds.american = Ret(Fin(100, 1))

---------------------------------------------------------------------------
(* The access gate. *)
Dispatched == req.pc # "idle"
Protected(b, method, path) ==
    \E i \in DOMAIN Chain(b) :
        /\ Chain(b)[i].kind \in {"get", "use", "router"} /\ Matches(Chain(b)[i], method, path)
        /\ StartsWith(path, "/api/gpt/") \/ path = "/api/diag/routes"

\* C15: with PUBLIC_API_KEY set, a request whose x-api-key differs from it
\* is answered 401 'unauthorized' by the gate on every /api/gpt/* route and
\* on /api/diag/routes, before any handler (so before any upstream call),
\* while GET /api/health is answered by its handler without the key; with
\* PUBLIC_API_KEY not set the gate answers no request.  In every server build.
C15_AccessGate ==
    Dispatched
        => /\ (Truthy(PUBLIC_API_KEY) /\ req.q.key # PUBLIC_API_KEY
                    /\ Protected(build, req.q.method, req.q.path))
                => (req.route = "gate" /\ req.pc = "done" /\ req.res = Unauthorized
                        /\ ~req.sent)
           /\ (req.q.method = "GET" /\ req.q.path = "/api/health") => req.route = "health"
           /\ ~Truthy(PUBLIC_API_KEY) => req.route # "gate"

---------------------------------------------------------------------------
(* Overlapping fetchOdds calls. *)
CompletePayloads == { JSONParse(b) : b \in Bodies } \ {SyntaxError}

\* C16: calls for the same key that overlap may all miss and all go
\* upstream; whatever the interleaving, a caller that gets a payload gets a
\* complete one, and the cache entry of a key, until it expires, is one
\* complete payload, the one of the set that ran last, with that set's age.
C16_LastSetWins ==
    /\ \A k \in Keys :
          cache[k].has => (cache[k] = lastSet[k] /\ cache[k].v \in CompletePayloads)
    /\ (last.pc = "returned") => last.result \in CompletePayloads
    /\ (last.pc = "returned" /\ last.wrote /\ cache[last.key].has)
          => cache[last.key].v = last.result

\* C16 witness: two calls for one key were in flight together; the second
\* set has just replaced the live payload the first had written with another
C16_Witness ==
    /\ last.pc = "returned" /\ last.wrote /\ last.over
    /\ cache[last.key].v = last.result
    /\ last.result = Arr(<<Obj([id |-> Str("e1")])>>)

---------------------------------------------------------------------------
(* Candidate field names. *)
RECURSIVE FirstPresent(_, _)
FirstPresent(e, names) ==
    IF names = <<>> THEN Undefined
    ELSE IF ~Nullish(Get(e, Head(names))) THEN Get(e, Head(names))
    ELSE FirstPresent(e, Tail(names))
SomePresent(e, names) == \E i \in DOMAIN names : ~Nullish(Get(e, names[i]))
IdNames == <<"id", "game_id", "event_id">>
SportKeyNames == <<"sport_key", "sportKey">>

\* C17: the id of a normalized event is the value of the first of id,
\* game_id, event_id that is present and not null in the raw event, and its
\* sport_key the first such of sport_key, sportKey, falsy values such as 0
\* or '' included.
C17_FirstPresentCandidate ==
    nzOut.fn \in {"normalizeEvents", "scanA"} =>
        \A i \in DOMAIN nzOut.out :
            /\ SomePresent(nzRaw[i], IdNames)
                  => Get(nzOut.out[i], "id") = FirstPresent(nzRaw[i], IdNames)
            /\ SomePresent(nzRaw[i], SportKeyNames)
                  => Get(nzOut.out[i], "sport_key") = FirstPresent(nzRaw[i], SportKeyNames)

---------------------------------------------------------------------------
(* Legs that pass validation. *)
GtOne(v) == Kind(v) \in {"fin", "big", "huge", "inf"} /\ ~LeOne(v)
Percentage(v) == Kind(v) = "fin" /\ 0 <= v.p /\ v.p <= 100 * v.q

\* C18: when every leg has passed its validation the product of the legs is
\* greater than 1, the conversion of the product to American odds does not
\* fail, so the request is priced, and the reported implied probability is
\* a percentage between 0 and 100.
C18_ValidLegsPriced ==
    AllLegsValid(req)
        => /\ GtOne(Combined(req))
           /\ Get(req.res.body, "ok") = Bool(TRUE)
           /\ Percentage(Price(req, "implied_probability"))

---------------------------------------------------------------------------
(* Totality of the resolver, and rejections ahead of the upstream. *)

\* C19: resolveSportKey returns null or a string for every input, the names
\* every object inherits ('constructor', '__proto__', ...) included.
C19_NullOrString ==
    rsOut.t # "pending" => rsOut.t \in {"null", "string"}

PresetRejections(r) ==
    { Str("Missing sport, eventId, or preset"), Str(F5Reason(build)),
      Str(UnknownPreset(ToLowerCase(Trim(StringOr(r.q.preset))))) }

\* C20: a /markets/preset request that ends in an input rejection (sport,
\* eventId or preset missing or unresolvable, preset not in the table, f5
\* with a sport key that is not baseball) has issued no upstream request.
C20_RejectedBeforeUpstream ==
    (req.pc = "done" /\ req.route = "preset" /\ Failed(req)
        /\ Get(req.res.body, "reason") \in PresetRejections(req))
        => (~req.sent /\ req.url = "" /\ req.upstream = NoUpstream)

\* C20 witness: f5 asked for a sport that is not baseball, and rejected
C20_Witness ==
    /\ req.pc = "done" /\ req.route = "preset"
    /\ Join(ToLowerCase(Trim(StringOr(req.q.preset)))) = "f5"
    /\ Rejected(req, F5Reason(build))

---------------------------------------------------------------------------
(* The earlier and the later parlay handler on the same request. *)
OtherBuild(b) == IF b = "part_003" THEN "part_004" ELSE "part_003"

\* what a caller sees of an answer: that it failed, or the three prices
Outcome(body) ==
    IF Get(body, "ok") = Bool(TRUE)
    THEN [ok |-> TRUE,
          decimal |-> Get(Get(body, "price"), "decimal"),
          american |-> Get(Get(body, "price"), "american"),
          implied_probability |-> Get(Get(body, "price"), "implied_probability")]
    ELSE [ok |-> FALSE, decimal |-> Undefined, american |-> Undefined,
          implied_probability |-> Undefined]

\* C21: for format 'american' or 'decimal' the earlier build (part_003) and
\* the later, format-gated build (part_004) agree on every leg list: both
\* fail, or both succeed with the same decimal price, American price and
\* implied probability.
C21_BuildsAgree ==
    (ParlayDone /\ AskedFormat(req) \in {"american", "decimal"})
        => Outcome(req.res.body) = Outcome(parlayPrice(OtherBuild(build), req.q))

====
